---- MODULE Spec2Model ----
(***************************************************************************)
(* claspy: STR profile scoring (str_profile.py), database search (db.py),  *)
(* ranked iteration and reports over the search result (result.py), the    *)
(* flat-file parser and the persisted format (db.py), and the marker       *)
(* registry (markers.py).                                                  *)
(*                                                                         *)
(* Scores are Python floats obtained by one division of two small          *)
(* integers.  Correctly rounded division maps equal quotients to equal     *)
(* floats and, for operands this small, distinct quotients to distinct     *)
(* floats in the same order, so a score is kept as the reduced fraction    *)
(* <<numerator, denominator>>.                                             *)
(***************************************************************************)
EXTENDS Integers, Sequences, FiniteSets, TLC

VARIABLES
    pc,                     \* position of the caller
    query,                  \* the query Profile
    reference,              \* the reference Profile handed to Profile.score
    db,                     \* CellosaurusDB: list of reference Profiles
    algorithm, mode, amel,  \* scoring arguments
    taxid,                  \* search argument: <<>> is None, <<t>> is t
    minscore, maxhits,      \* SearchResult thresholds
    score_result,           \* outcome of the last Profile.score call
    results_by_cell_line,   \* SearchResult.results_by_cell_line (ordered dict)
    sorted_ids,             \* identifiers held by the running ids_by_score generator
    n,                      \* enumerate() index inside SearchResult.__iter__
    yielded,                \* CellLineResults yielded so far by __iter__
    stop_reason,            \* why __iter__ returned
    summary,                \* rows collected by SearchResult.summary
    full_report,            \* rows collected by SearchResult.full_report
    instream,               \* flat file: the blocks parse_cellosaurus_into_blocks yields
    block_no, line_no,      \* block being parsed, lines of it already parsed
    meta,                   \* CellosaurusEntry.meta
    entry_alleles,          \* CellosaurusEntry.alleles (ordered dict source -> dict)
    warnings,               \* sources reported as not defined
    pairs,                  \* (alleles, metadata) pairs of the last finished entry
    load_error,             \* exception that ended the load, "" if none
    profiles,               \* the list convert_from_path is filling
    loaded,                 \* what convert_from_path returned: <<>> or <<database>>
    marker_names,           \* argument of validate_names
    names_result,           \* outcome of validate_names
    raw_name,               \* argument of standardize_name
    name_result,            \* outcome of standardize_name
    db1, json1, db2, json2, \* database, its first save, the reloaded database, second save
    allele_set,             \* argument of Profile.allele_repr
    repr_result             \* outcome of Profile.allele_repr

searchVars == <<query, reference, db, algorithm, mode, amel, taxid, minscore,
                maxhits, score_result, results_by_cell_line, sorted_ids, n, yielded,
                stop_reason, summary, full_report>>
loadVars == <<instream, block_no, line_no, meta, entry_alleles, warnings, pairs,
              load_error, profiles, loaded>>
markerVars == <<marker_names, names_result, raw_name, name_result>>
storeVars == <<db1, json1, db2, json2>>
reprVars == <<allele_set, repr_result>>

vars == <<pc, searchVars, loadVars, markerVars, storeVars, reprVars>>

----------------------------------------------------------------------------
(* Bounds of the model *)

MaxAlleles == 2
MaxDb == 3

\* values of the variables an operation does not use
\* CellosaurusEntry.meta = dict(): a key that is not set holds <<>>
NoMeta ==
    [identifier |-> <<>>, accession |-> <<>>, synonyms |-> <<>>, taxid |-> <<>>,
     organism |-> <<>>]

LoadIdle ==
    /\ instream = <<>> /\ block_no = 0 /\ line_no = 0
    /\ meta = NoMeta /\ entry_alleles = <<>> /\ warnings = <<>>
    /\ pairs = <<>> /\ load_error = "" /\ profiles = <<>> /\ loaded = <<>>
MarkersIdle ==
    /\ marker_names = <<>> /\ names_result = <<>>
    /\ raw_name = <<>> /\ name_result = <<>>
StoreIdle == db1 = <<>> /\ json1 = <<>> /\ db2 = <<>> /\ json2 = <<>>
ReprIdle == allele_set = {} /\ repr_result = <<>>

----------------------------------------------------------------------------
(* Python strings: a str is the sequence of its characters, compared by code *)
(* point.  Chars gives the characters of the string literals the model uses. *)

\* the characters in use, in code point order
Alphabet ==
    <<" ", ",", "-", ".", "0", "1", "2", "3", "4", "5", "6", "7", "8", "9",
      "=", "A", "B", "C", "D", "E", "F", "G", "H", "I", "J", "K", "L", "M",
      "N", "O", "P", "Q", "R", "S", "T", "U", "V", "W", "X", "Y", "Z", "_",
      "a", "b", "c", "d", "e", "f", "g", "h", "i", "j", "k", "l", "m", "n",
      "o", "p", "q", "r", "s", "t", "u", "v", "w", "x", "y", "z">>

Ord(c) == CHOOSE i \in 1..Len(Alphabet) : Alphabet[i] = c

\* str.__lt__
RECURSIVE StrLt(_, _)
StrLt(a, b) ==
    IF b = <<>> THEN FALSE
    ELSE IF a = <<>> THEN TRUE
    ELSE IF Head(a) # Head(b) THEN Ord(Head(a)) < Ord(Head(b))
    ELSE StrLt(Tail(a), Tail(b))

Chars(s) ==
    CASE s = "" -> <<>>
      [] s = "8" -> <<"8">>
      [] s = "9" -> <<"9">>
      [] s = "9.3" -> <<"9", ".", "3">>
      [] s = "10" -> <<"1", "0">>
      [] s = "11" -> <<"1", "1">>
      [] s = "15.2" -> <<"1", "5", ".", "2">>
      [] s = "X" -> <<"X">>
      [] s = "Y" -> <<"Y">>
      [] s = "TH01" -> <<"T", "H", "0", "1">>
      [] s = "TPOX" -> <<"T", "P", "O", "X">>
      [] s = "Amelogenin" -> <<"A", "m", "e", "l", "o", "g", "e", "n", "i", "n">>
      [] s = "ATCC" -> <<"A", "T", "C", "C">>
      [] s = "DSMZ" -> <<"D", "S", "M", "Z">>
      [] s = "PubMed" -> <<"P", "u", "b", "M", "e", "d">>
      [] s = "CVCL_A" -> <<"C", "V", "C", "L", "_", "A">>
      [] s = "CVCL_B" -> <<"C", "V", "C", "L", "_", "B">>
      [] s = "CVCL_C" -> <<"C", "V", "C", "L", "_", "C">>
      [] s = "mock" -> <<"m", "o", "c", "k">>

----------------------------------------------------------------------------
(* Fractions standing for float scores *)

RECURSIVE GCD(_, _)
GCD(a, b) == IF b = 0 THEN a ELSE GCD(b, a % b)

Frac(num, den) == LET g == GCD(num, den) IN <<num \div g, den \div g>>

Zero == <<0, 1>>
One == <<1, 1>>

FracLt(a, b) == a[1] * b[2] < b[1] * a[2]
FracLe(a, b) == a[1] * b[2] <= b[1] * a[2]

\* Python's "/" on ints: ZeroDivisionError when the divisor is 0
TrueDiv(num, den) ==
    IF den = 0 THEN [raised |-> "ZeroDivisionError", value |-> Zero]
    ELSE [raised |-> "", value |-> Frac(num, den)]

----------------------------------------------------------------------------
(* Profiles: alleles is the dict _alleles (marker -> set of allele tokens),  *)
(* meta the dict _meta.                                                      *)

NumericTokens == <<"9", "9.3", "10", "11">>
RegularAlleles == {NumericTokens[i] : i \in 1..MaxAlleles}
SexAlleles == {"X", "Y"}
RegularMarkers == {"TH01", "TPOX"}
AllMarkers == RegularMarkers \cup {"Amelogenin"}

TokensOf(marker) == IF marker = "Amelogenin" THEN SexAlleles ELSE RegularAlleles

\* every _alleles dict over the markers: parse_allele_string never returns an
\* empty set, and validate_names rejects an empty dict of markers
AlleleDicts ==
    UNION {[ms -> (SUBSET (RegularAlleles \cup SexAlleles)) \ {{}}] :
             ms \in (SUBSET AllMarkers) \ {{}}}

WellTyped(d) == \A m \in DOMAIN d : d[m] \subseteq TokensOf(m)

ScoreProfiles ==
    {[meta |-> [sample |-> "mock"], alleles |-> d] : d \in {e \in AlleleDicts : WellTyped(e)}}

\* Profile.markers
markers(profile) == DOMAIN profile.alleles

\* Profile.alleles(markers=...): the (marker, allele) pairs at the given markers
alleles(profile, ms) ==
    UNION {{<<m, a>> : a \in profile.alleles[m]} : m \in markers(profile) \cap ms}

----------------------------------------------------------------------------
(* Profile.score *)

Algorithms == {"Tanabe", "query", "reference"}
Modes == {"intersect", "query", "reference"}

\* the intersect mode takes the markers of either profile
markers_for_scoring_mut2(q, r, md, am) ==
    LET ms == IF md = "intersect" THEN markers(q) \cup markers(r)
              ELSE IF md = "query" THEN markers(q)
              ELSE markers(r)
    IN  IF ~am THEN ms \ {"Amelogenin"} ELSE ms

markers_for_scoring_mut(q, r, md, am) ==
    LET ms == IF md = "intersect" THEN markers(q) \cap markers(r)
              ELSE IF md = "query" THEN markers(q)
              ELSE markers(r)
    IN  IF ~am /\ md = "intersect" THEN ms \ {"Amelogenin"} ELSE ms

markers_for_scoring(q, r, md, am) ==
    LET ms == IF md = "intersect" THEN markers(q) \cap markers(r)
              ELSE IF md = "query" THEN markers(q)
              ELSE markers(r)
    IN  IF ~am THEN ms \ {"Amelogenin"} ELSE ms

\* the unguarded formula
score_value_mut(alg, shared_alleles, query_alleles, refr_alleles) ==
    IF alg = "Tanabe" THEN TrueDiv(2 * shared_alleles, query_alleles + refr_alleles)
    ELSE IF alg = "query" THEN TrueDiv(shared_alleles, query_alleles)
    ELSE TrueDiv(shared_alleles, refr_alleles)

\* the Tanabe formula without the factor 2
score_value_mut2(alg, shared_alleles, query_alleles, refr_alleles) ==
    IF shared_alleles > 0
    THEN IF alg = "Tanabe" THEN TrueDiv(shared_alleles, query_alleles + refr_alleles)
         ELSE IF alg = "query" THEN TrueDiv(shared_alleles, query_alleles)
         ELSE TrueDiv(shared_alleles, refr_alleles)
    ELSE [raised |-> "", value |-> Zero]

\* the reference algorithm dividing by the query's count
score_value_mut3(alg, shared_alleles, query_alleles, refr_alleles) ==
    IF shared_alleles > 0
    THEN IF alg = "Tanabe" THEN TrueDiv(2 * shared_alleles, query_alleles + query_alleles)
         ELSE IF alg = "query" THEN TrueDiv(shared_alleles, query_alleles)
         ELSE TrueDiv(shared_alleles, refr_alleles)
    ELSE [raised |-> "", value |-> Zero]

score_value(alg, shared_alleles, query_alleles, refr_alleles) ==
    IF shared_alleles > 0
    THEN IF alg = "Tanabe" THEN TrueDiv(2 * shared_alleles, query_alleles + refr_alleles)
         ELSE IF alg = "query" THEN TrueDiv(shared_alleles, query_alleles)
         ELSE TrueDiv(shared_alleles, refr_alleles)
    ELSE [raised |-> "", value |-> Zero]

NotComputed == {"not computed"}

Raise(exception, message, value) ==
    [raised |-> exception, message |-> message, value |-> value,
     markers |-> NotComputed, score |-> Zero, shared_alleles |-> 0]

\* the mode is checked only after the marker set was taken
score_mut(q, r, alg, md, am) ==
    IF alg \notin Algorithms
    THEN Raise("ValueError", "unsupported scoring algorithm", alg)
    ELSE LET ms == markers_for_scoring(q, r, md, am)
         IN  IF md \notin Modes
             THEN [Raise("ValueError", "unsupported scoring mode", md) EXCEPT !.markers = ms]
             ELSE LET query_alleles == Cardinality(alleles(q, ms))
                      refr_alleles == Cardinality(alleles(r, ms))
                      shared_alleles == Cardinality(alleles(q, ms) \cap alleles(r, ms))
                      sc == score_value(alg, shared_alleles, query_alleles, refr_alleles)
                  IN  [raised |-> sc.raised, message |-> "", value |-> "",
                       markers |-> ms, score |-> sc.value,
                       shared_alleles |-> shared_alleles]

score(q, r, alg, md, am) ==
    IF alg \notin Algorithms
    THEN Raise("ValueError", "unsupported scoring algorithm", alg)
    ELSE IF md \notin Modes
    THEN Raise("ValueError", "unsupported scoring mode", md)
    ELSE LET ms == markers_for_scoring(q, r, md, am)
             query_alleles == Cardinality(alleles(q, ms))
             refr_alleles == Cardinality(alleles(r, ms))
             shared_alleles == Cardinality(alleles(q, ms) \cap alleles(r, ms))
             sc == score_value(alg, shared_alleles, query_alleles, refr_alleles)
         IN  [raised |-> sc.raised, message |-> "", value |-> "",
              markers |-> ms, score |-> sc.value,
              shared_alleles |-> shared_alleles]

NoResult == Raise("", "", "")

----------------------------------------------------------------------------
(* Specification of the scoring engine: a caller holding two profiles calls *)
(* Profile.score with arguments of its choice.                              *)

AlgorithmArgs == Algorithms \cup {"AI"}
ModeArgs == Modes \cup {"lizard"}

ScoreInit ==
    /\ pc = "call"
    /\ query \in ScoreProfiles
    /\ reference \in ScoreProfiles
    /\ db = <<>>
    /\ algorithm = "Tanabe" /\ mode = "intersect" /\ amel = FALSE
    /\ taxid = <<>>
    /\ minscore = Zero /\ maxhits = 0
    /\ score_result = NoResult
    /\ results_by_cell_line = <<>>
    /\ sorted_ids = <<>>
    /\ n = 0
    /\ yielded = <<>>
    /\ stop_reason = ""
    /\ summary = <<>> /\ full_report = <<>>
    /\ LoadIdle /\ MarkersIdle /\ StoreIdle /\ ReprIdle

ScoreCall ==
    /\ pc = "call"
    /\ \E alg \in AlgorithmArgs, md \in ModeArgs, am \in BOOLEAN :
         /\ algorithm' = alg /\ mode' = md /\ amel' = am
         /\ score_result' = score(query, reference, alg, md, am)
         /\ pc' = IF score_result'.raised = "" THEN "returned" ELSE "raised"
    /\ UNCHANGED <<query, reference, db, taxid, minscore, maxhits,
                   results_by_cell_line, sorted_ids, n, yielded, stop_reason,
                   summary, full_report>>
    /\ UNCHANGED <<loadVars, markerVars, storeVars, reprVars>>

ScoreNext == ScoreCall

ScoreSpec == ScoreInit /\ [][ScoreNext]_vars

----------------------------------------------------------------------------
(* Database search: CellosaurusDB.search, SearchResult, CellLineResult *)

\* a list taxid matches only when every entry equals the taxid
taxid_match_mut(profile, t) ==
    \A i \in 1..Len(profile.meta.taxid.ids) : profile.meta.taxid.ids[i] = t

\* Profile.taxid_match: _meta["taxid"] is a list ([list |-> TRUE]) or a scalar
taxid_match(profile, t) ==
    IF profile.meta.taxid.list
    THEN \E i \in 1..Len(profile.meta.taxid.ids) : profile.meta.taxid.ids[i] = t
    ELSE profile.meta.taxid.ids[1] = t

\* Profile.identifier
identifier_of(profile) == profile.meta.identifier

ProfileResult(sample, sc, shared, ref) ==
    [sample |-> sample, score |-> sc, shared_alleles |-> shared, reference |-> ref]

HasKey(rbc, id) == \E i \in 1..Len(rbc) : rbc[i].identifier = id

\* the result is put in front of the cell-line's list instead of at its end
add_profile_result_mut(rbc, result) ==
    LET id == identifier_of(result.reference)
    IN  IF HasKey(rbc, id)
        THEN [i \in 1..Len(rbc) |->
                IF rbc[i].identifier = id
                THEN [rbc[i] EXCEPT !.results = <<result>> \o @]
                ELSE rbc[i]]
        ELSE Append(rbc, [identifier |-> id, results |-> <<result>>])

\* SearchResult.add_profile_result on the defaultdict, kept in insertion order
add_profile_result(rbc, result) ==
    LET id == identifier_of(result.reference)
    IN  IF HasKey(rbc, id)
        THEN [i \in 1..Len(rbc) |->
                IF rbc[i].identifier = id
                THEN [rbc[i] EXCEPT !.results = Append(@, result)]
                ELSE rbc[i]]
        ELSE Append(rbc, [identifier |-> id, results |-> <<result>>])

\* the taxid filter of the scan loop: TRUE when the reference is skipped
skipped(ref, tx) == tx # <<>> /\ ~taxid_match(ref, tx[1])

\* the scan loop of CellosaurusDB.search from reference i on; a raising score
\* call ends the search without a result
RECURSIVE search_loop(_, _, _, _, _, _, _, _)
search_loop(database, q, alg, md, am, tx, rbc, i) ==
    IF i > Len(database) THEN [raised |-> "", message |-> "", value |-> "", results |-> rbc]
    ELSE IF skipped(database[i], tx)
    THEN search_loop(database, q, alg, md, am, tx, rbc, i + 1)
    ELSE LET res == score(q, database[i], alg, md, am)
         IN  IF res.raised # ""
             THEN [raised |-> res.raised, message |-> res.message, value |-> res.value,
                   results |-> <<>>]
             ELSE search_loop(database, q, alg, md, am, tx,
                              add_profile_result(rbc,
                                  ProfileResult(q.meta.sample, res.score,
                                                res.shared_alleles, database[i])),
                              i + 1)

\* the algorithm and the mode are checked before the scan starts
search_mut(database, q, alg, md, am, tx) ==
    IF alg \notin Algorithms \/ md \notin Modes
    THEN [raised |-> "ValueError", message |-> "", value |-> "", results |-> <<>>]
    ELSE search_loop(database, q, alg, md, am, tx, <<>>, 1)

search(database, q, alg, md, am, tx) == search_loop(database, q, alg, md, am, tx, <<>>, 1)

\* CellLineResult.top_score
top_score(cell_line) ==
    LET scores == {cell_line.results[i].score : i \in 1..Len(cell_line.results)}
    IN  CHOOSE s \in scores : \A t \in scores : FracLe(t, s)

\* the largest shared-allele count of the cell-line, whatever the score
top_score_shared_alleles_mut(cell_line) ==
    LET shared == {cell_line.results[i].shared_alleles : i \in 1..Len(cell_line.results)}
    IN  CHOOSE s \in shared : \A t \in shared : t <= s

\* CellLineResult.top_score_shared_alleles
top_score_shared_alleles(cell_line) ==
    LET shared == {cell_line.results[i].shared_alleles :
                     i \in {j \in 1..Len(cell_line.results) :
                              cell_line.results[j].score = top_score(cell_line)}}
    IN  CHOOSE s \in shared : \A t \in shared : t <= s

\* the sort key of ids_by_score, and Python's order on such tuples
sort_key(cell_line) == <<top_score(cell_line), top_score_shared_alleles(cell_line)>>

KeyLt(a, b) == FracLt(a[1], b[1]) \/ (a[1] = b[1] /\ a[2] < b[2])

\* sorted(..., reverse=True) is stable: an element goes behind every element
\* whose key is not smaller
RECURSIVE insert_desc(_, _)
insert_desc(sorted_results, x) ==
    IF sorted_results = <<>> THEN <<x>>
    ELSE IF KeyLt(sort_key(Head(sorted_results)), sort_key(x))
    THEN <<x>> \o sorted_results
    ELSE <<Head(sorted_results)>> \o insert_desc(Tail(sorted_results), x)

RECURSIVE sorted_desc(_, _)
sorted_desc(values, acc) ==
    IF values = <<>> THEN acc
    ELSE sorted_desc(Tail(values), insert_desc(acc, Head(values)))

\* SearchResult.ids_by_score
ids_by_score(rbc) ==
    LET sorted_results == sorted_desc(rbc, <<>>)
    IN  [i \in 1..Len(sorted_results) |-> sorted_results[i].identifier]

\* results_by_cell_line[identifier]
cell_line_of(rbc, id) == rbc[CHOOSE i \in 1..Len(rbc) : rbc[i].identifier = id]

\* the two tests of SearchResult.__iter__
hit_cap_reached_mut(k, hits) == hits > 0 /\ k > hits

hit_cap_reached(k, hits) == hits > 0 /\ k >= hits

below_minscore_mut(cell_line, ms) == FracLe(top_score(cell_line), ms)

below_minscore(cell_line, ms) == FracLt(top_score(cell_line), ms)

----------------------------------------------------------------------------
(* Reports: CellLineResult.summary / full_report, ProfileResult ordering.   *)
(* A row keeps the columns up to Source; the marker columns are left out.   *)

\* Profile.slug and Profile.__lt__
slug(profile) ==
    <<Chars(profile.meta.identifier), Chars(profile.meta.accession),
      Chars(profile.meta.source)>>

profile_lt(a, b) ==
    LET sa == slug(a)
        sb == slug(b)
    IN  IF sa[1] # sb[1] THEN StrLt(sa[1], sb[1])
        ELSE IF sa[2] # sb[2] THEN StrLt(sa[2], sb[2])
        ELSE StrLt(sa[3], sb[3])

\* the references are never compared
result_lt_mut(a, b) ==
    IF a.sample # b.sample THEN StrLt(Chars(a.sample), Chars(b.sample))
    ELSE IF a.score # b.score THEN FracLt(a.score, b.score)
    ELSE a.shared_alleles < b.shared_alleles

\* tuple order of the namedtuple ProfileResult(sample, score, shared_alleles,
\* reference): the first differing field decides
result_lt(a, b) ==
    IF a.sample # b.sample THEN StrLt(Chars(a.sample), Chars(b.sample))
    ELSE IF a.score # b.score THEN FracLt(a.score, b.score)
    ELSE IF a.shared_alleles # b.shared_alleles THEN a.shared_alleles < b.shared_alleles
    ELSE IF a.reference = b.reference THEN FALSE
    ELSE profile_lt(a.reference, b.reference)

\* sorted(self, reverse=True) on a CellLineResult, stable
RECURSIVE insert_result(_, _)
insert_result(sorted_results, x) ==
    IF sorted_results = <<>> THEN <<x>>
    ELSE IF result_lt(Head(sorted_results), x)
    THEN <<x>> \o sorted_results
    ELSE <<Head(sorted_results)>> \o insert_result(Tail(sorted_results), x)

RECURSIVE sorted_reverse(_, _)
sorted_reverse(results, acc) ==
    IF results = <<>> THEN acc
    ELSE sorted_reverse(Tail(results), insert_result(acc, Head(results)))

\* CellLineResult.sample / CellLineResult.identifier
cell_line_sample(cell_line) == cell_line.results[1].sample
cell_line_identifier(cell_line) == identifier_of(cell_line.results[1].reference)

Row(sample, cell_line, status, sc, shared, source) ==
    [Sample |-> sample, CellLine |-> cell_line, Status |-> status,
     Score |-> sc, SharedAlleles |-> shared, Source |-> source]

NA == <<"NA">>

\* the entry SearchResult.full_report starts with
query_row(q) == Row(q.meta.sample, q.meta.sample, "query", NA, NA, NA)

\* the last of the sorted results is reported
cell_line_summary_mut(cell_line) ==
    LET results == sorted_reverse(cell_line.results, <<>>)
        best == results[Len(results)]
    IN  Row(cell_line_sample(cell_line), cell_line_identifier(cell_line), "",
            best.score, best.shared_alleles, best.reference.meta.source)

\* CellLineResult.summary (the summary has no Status column)
cell_line_summary(cell_line) ==
    LET results == sorted_reverse(cell_line.results, <<>>)
        best == results[1]
    IN  Row(cell_line_sample(cell_line), cell_line_identifier(cell_line), "",
            best.score, best.shared_alleles, best.reference.meta.source)

\* a lone result is reported as best too
cell_line_full_report_mut(cell_line) ==
    LET results == sorted_reverse(cell_line.results, <<>>)
        best == results[1]
        worst == results[Len(results)]
    IN  <<Row(cell_line_sample(cell_line), cell_line_identifier(cell_line), "best",
              best.score, best.shared_alleles, best.reference.meta.source)>>
        \o (IF Len(results) > 1
            THEN <<Row(cell_line_sample(cell_line), cell_line_identifier(cell_line),
                       "worst", worst.score, worst.shared_alleles,
                       worst.reference.meta.source)>>
            ELSE <<>>)

\* CellLineResult.full_report
cell_line_full_report(cell_line) ==
    LET results == sorted_reverse(cell_line.results, <<>>)
        best == results[1]
        status == IF Len(results) > 1 THEN "best" ELSE "only"
        worst == results[Len(results)]
    IN  <<Row(cell_line_sample(cell_line), cell_line_identifier(cell_line), status,
              best.score, best.shared_alleles, best.reference.meta.source)>>
        \o (IF Len(results) > 1
            THEN <<Row(cell_line_sample(cell_line), cell_line_identifier(cell_line),
                       "worst", worst.score, worst.shared_alleles,
                       worst.reference.meta.source)>>
            ELSE <<>>)

----------------------------------------------------------------------------
(* Specification of a search: a database is searched once and the result is *)
(* iterated, one next() of the generator per step.                          *)

SearchQuery ==
    [meta |-> [sample |-> "mock"],
     alleles |-> [m \in AllMarkers |->
                    IF m = "TH01" THEN {"9", "9.3"}
                    ELSE IF m = "TPOX" THEN {"9"} ELSE {"X"}]]

Scalar(t) == [list |-> FALSE, ids |-> <<t>>]
List(ts) == [list |-> TRUE, ids |-> ts]

Ref(id, source, tx, d) ==
    [meta |-> [identifier |-> id, accession |-> id, source |-> source, taxid |-> tx],
     alleles |-> d]

Th(a) == [m \in {"TH01"} |-> a]
Tp(a) == [m \in {"TPOX"} |-> a]
Both(a, b) == [m \in RegularMarkers |-> IF m = "TH01" THEN a ELSE b]

\* reference profiles a database is made of; against SearchQuery they score
\* (1, 3), (4/5, 2), (1, 1), (1, 2), (1, 2), (1, 2), (0, 0) and (1, 3)
RefPool ==
    { Ref("CVCL_A", "ATCC",   Scalar(9606),          Both({"9", "9.3"}, {"9"})),
      Ref("CVCL_A", "PubMed", Scalar(9606),          Both({"9"}, {"9"})),
      Ref("CVCL_A", "DSMZ",   Scalar(9606),          Tp({"9"})),
      Ref("CVCL_B", "ATCC",   Scalar(9606),          Th({"9", "9.3"})),
      Ref("CVCL_B", "DSMZ",   List(<<10090, 9606>>), Th({"9", "9.3"})),
      Ref("CVCL_C", "ATCC",   Scalar(9606),          Th({"9", "9.3"})),
      Ref("CVCL_C", "PubMed", Scalar(9606),          Tp({"9.3"})),
      Ref("CVCL_C", "DSMZ",   Scalar(10090),         Both({"9", "9.3"}, {"9"})) }

Databases == UNION {[1..k -> RefPool] : k \in 0..MaxDb}

TaxidArgs == {<<>>, <<9606>>}
MinscoreArgs == {Zero, <<4, 5>>, <<9, 10>>}
MaxhitsArgs == {-1, 0, 1, 2}
SearchAlgorithmArgs == {"Tanabe", "AI"}

Init ==
    /\ pc = "ready"
    /\ query = SearchQuery
    /\ reference = SearchQuery
    /\ db \in Databases
    /\ algorithm = "Tanabe" /\ mode = "intersect" /\ amel = FALSE
    /\ taxid = <<>>
    /\ minscore = Zero /\ maxhits = 0
    /\ score_result = NoResult
    /\ results_by_cell_line = <<>>
    /\ sorted_ids = <<>>
    /\ n = 0
    /\ yielded = <<>>
    /\ stop_reason = ""
    /\ summary = <<>> /\ full_report = <<>>
    /\ LoadIdle /\ MarkersIdle /\ StoreIdle /\ ReprIdle

\* db.search(query, algorithm, mode, amel, taxid, minscore, maxhits) with the
\* arguments drawn from the given sets
SearchWith(algs, mds, txs, mss, hitss) ==
    /\ pc = "ready"
    /\ \E alg \in algs, md \in mds, tx \in txs, ms \in mss, hits \in hitss :
         \E outcome \in {search(db, query, alg, md, amel, tx)} :
             /\ algorithm' = alg /\ mode' = md /\ taxid' = tx
             /\ minscore' = ms /\ maxhits' = hits
             /\ results_by_cell_line' = outcome.results
             /\ pc' = IF outcome.raised = "" THEN "searched" ELSE "failed"
             /\ stop_reason' = IF outcome.raised = "" THEN "" ELSE outcome.raised
    /\ UNCHANGED <<query, reference, db, amel, score_result, sorted_ids, n, yielded,
                   summary, full_report>>
    /\ UNCHANGED <<loadVars, markerVars, storeVars, reprVars>>

\* the search of a caller that leaves the mode at its default
Search ==
    SearchWith(SearchAlgorithmArgs, {"intersect"}, TaxidArgs, MinscoreArgs, MaxhitsArgs)

\* one next() on the generator SearchResult.__iter__: the first one sorts.
\* The loops of SearchResult.summary and SearchResult.full_report run on this
\* generator: full_report appends the query row before its loop starts, and
\* each yielded CellLineResult adds its rows to both reports.
IterNext ==
    /\ pc \in {"searched", "iterating"}
    /\ LET ranked == IF pc = "searched" THEN ids_by_score(results_by_cell_line)
                     ELSE sorted_ids
           entries == IF pc = "searched" THEN <<query_row(query)>> ELSE full_report
       IN  /\ sorted_ids' = ranked
           /\ IF n >= Len(ranked)
              THEN /\ pc' = "stopped" /\ stop_reason' = "exhausted"
                   /\ full_report' = entries
                   /\ UNCHANGED <<n, yielded, summary>>
              ELSE IF hit_cap_reached(n, maxhits)
              THEN /\ pc' = "stopped" /\ stop_reason' = "maxhits"
                   /\ full_report' = entries
                   /\ UNCHANGED <<n, yielded, summary>>
              ELSE IF below_minscore(cell_line_of(results_by_cell_line, ranked[n + 1]),
                                     minscore)
              THEN /\ pc' = "stopped" /\ stop_reason' = "minscore"
                   /\ full_report' = entries
                   /\ UNCHANGED <<n, yielded, summary>>
              ELSE LET result == cell_line_of(results_by_cell_line, ranked[n + 1])
                   IN  /\ pc' = "iterating" /\ stop_reason' = ""
                       /\ n' = n + 1
                       /\ yielded' = Append(yielded, result)
                       /\ summary' = Append(summary, cell_line_summary(result))
                       /\ full_report' = entries \o cell_line_full_report(result)
    /\ UNCHANGED <<query, reference, db, algorithm, mode, amel, taxid, minscore,
                   maxhits, score_result, results_by_cell_line>>
    /\ UNCHANGED <<loadVars, markerVars, storeVars, reprVars>>

Next == Search \/ IterNext

Spec == Init /\ [][Next]_vars

----------------------------------------------------------------------------
(* Properties of search and ranked iteration, checked under Spec *)

\* the reference's taxid metadata contains t
TaxidContains(ref, t) == t \in {ref.meta.taxid.ids[i] : i \in 1..Len(ref.meta.taxid.ids)}

PassesFilter(ref) == taxid = <<>> \/ TaxidContains(ref, taxid[1])

\* the references of the database that pass the taxid filter, in scan order
Passed == SelectSeq(db, PassesFilter)

\* position in the scan of the first scored reference of a cell-line
FirstScanIndex(id) ==
    CHOOSE i \in 1..Len(Passed) :
        /\ Passed[i].meta.identifier = id
        /\ \A j \in 1..(i - 1) : Passed[j].meta.identifier # id

\* (top_score, top_score_shared_alleles) of a cell-line, stated from its results
BestKey(cell_line) ==
    LET rs == {cell_line.results[i] : i \in 1..Len(cell_line.results)}
        best == {r \in rs : \A o \in rs : ~FracLt(r.score, o.score)}
        top == CHOOSE r \in best : \A o \in best : o.shared_alleles <= r.shared_alleles
    IN  <<top.score, top.shared_alleles>>

\* C1: the yielded cell-lines are in descending order of
\* (top_score, top_score_shared_alleles); cell-lines equal on both keys come
\* in the order their identifier was first inserted during the scan.
C1_RankedOrder ==
    \A i, j \in 1..Len(yielded) :
        i < j =>
            /\ ~KeyLt(BestKey(yielded[i]), BestKey(yielded[j]))
            /\ (BestKey(yielded[i]) = BestKey(yielded[j]) =>
                    FirstScanIndex(yielded[i].identifier)
                        < FirstScanIndex(yielded[j].identifier))

\* three cell-lines yielded, the last two tied on both keys, and the scan
\* met the top-ranked one last
C1_Witness ==
    /\ pc = "stopped" /\ Len(yielded) = 3
    /\ KeyLt(BestKey(yielded[2]), BestKey(yielded[1]))
    /\ BestKey(yielded[2]) = BestKey(yielded[3])
    /\ FirstScanIndex(yielded[1].identifier) = 3

C2_Prefix ==
    pc \in {"iterating", "stopped"} =>
        LET ranked == ids_by_score(results_by_cell_line)
        IN  /\ Len(yielded) = n /\ n <= Len(ranked)
            /\ \A i \in 1..n :
                  /\ yielded[i].identifier = ranked[i]
                  /\ ~FracLt(BestKey(yielded[i])[1], minscore)
            /\ (stop_reason = "minscore" =>
                  /\ pc = "stopped"
                  /\ n < Len(ranked)
                  /\ FracLt(BestKey(cell_line_of(results_by_cell_line, ranked[n + 1]))[1],
                            minscore))
            /\ (stop_reason = "exhausted" => n = Len(ranked))

\* C2: the yielded sequence is a prefix of the ranked order, every yielded
\* cell-line has top_score >= minscore, iteration stops at the first
\* cell-line whose top_score is below minscore and yields nothing after it.
C2_StopsAtMinscore ==
    /\ []C2_Prefix
    /\ [][stop_reason = "minscore" => (yielded' = yielded /\ stop_reason' = "minscore")]_vars

\* stopped for the score with a cell-line equal to minscore yielded before
C2_Witness ==
    /\ pc = "stopped" /\ stop_reason = "minscore"
    /\ n = 2 /\ Len(results_by_cell_line) = 3
    /\ BestKey(yielded[2])[1] = minscore

\* the cell-lines of the result whose top_score is at least minscore
Qualifying ==
    {results_by_cell_line[i].identifier : i \in
        {j \in 1..Len(results_by_cell_line) :
            ~FracLt(BestKey(results_by_cell_line[j])[1], minscore)}}

\* C3: with maxhits = k > 0 at most k cell-lines are yielded; with
\* maxhits <= 0 a finished iteration has yielded every cell-line whose
\* top_score is at least minscore.
C3_MaxhitsCap ==
    /\ (maxhits > 0 => Len(yielded) <= maxhits)
    /\ (pc = "stopped" /\ maxhits <= 0 =>
            /\ {yielded[i].identifier : i \in 1..Len(yielded)} = Qualifying
            /\ Len(yielded) = Cardinality(Qualifying))

\* the cap cut the iteration short of a qualifying cell-line
C3_Witness ==
    /\ pc = "stopped" /\ stop_reason = "maxhits" /\ maxhits = 2
    /\ Len(yielded) = 2
    /\ Cardinality(Qualifying) = 3

\* C4: after search the result holds one ProfileResult per reference that
\* passed the taxid filter, under the reference's identifier and in scan
\* order, whatever minscore and maxhits are and however far iteration went.
C4_AllResultsStored ==
    pc \in {"searched", "iterating", "stopped"} =>
        /\ \A i \in 1..Len(Passed) : HasKey(results_by_cell_line, Passed[i].meta.identifier)
        /\ \A i, j \in 1..Len(results_by_cell_line) :
              results_by_cell_line[i].identifier = results_by_cell_line[j].identifier => i = j
        /\ \A i \in 1..Len(results_by_cell_line) :
              LET entry == results_by_cell_line[i]
                  SameId(ref) == ref.meta.identifier = entry.identifier
                  scanned == SelectSeq(Passed, SameId)
              IN  /\ Len(entry.results) = Len(scanned)
                  /\ Len(scanned) > 0
                  /\ \A k \in 1..Len(scanned) :
                        /\ entry.results[k].reference = scanned[k]
                        /\ entry.results[k].sample = query.meta.sample

\* a reference was filtered out, a cell-line holds two results, and the
\* thresholds kept a stored cell-line out of the iteration
C4_Witness ==
    /\ pc = "stopped" /\ Len(db) = 3 /\ Len(Passed) = 2
    /\ minscore = <<9, 10>> /\ maxhits = 1
    /\ Len(results_by_cell_line) = 1
    /\ Len(results_by_cell_line[1].results) = 2
    /\ Len(yielded) = 0

\* (score, shared_alleles, slug) of a ProfileResult, compared position by
\* position; the slug is (identifier, accession, source)
SlugOf(r) ==
    <<r.reference.meta.identifier, r.reference.meta.accession, r.reference.meta.source>>

SlugBefore(a, b) ==
    \E j \in 1..3 :
        /\ \A i \in 1..(j - 1) : SlugOf(a)[i] = SlugOf(b)[i]
        /\ SlugOf(a)[j] # SlugOf(b)[j]
        /\ StrLt(Chars(SlugOf(a)[j]), Chars(SlugOf(b)[j]))

RankedBefore(a, b) ==
    \/ FracLt(a.score, b.score)
    \/ a.score = b.score /\ a.shared_alleles < b.shared_alleles
    \/ a.score = b.score /\ a.shared_alleles = b.shared_alleles /\ SlugBefore(a, b)

IsMaximal(r, results) == \A k \in 1..Len(results) : ~RankedBefore(r, results[k])
IsMinimal(r, results) == \A k \in 1..Len(results) : ~RankedBefore(results[k], r)

Carries(row, cell_line, r) ==
    /\ row.Sample = query.meta.sample
    /\ row.CellLine = cell_line.identifier
    /\ row.Score = r.score
    /\ row.SharedAlleles = r.shared_alleles
    /\ row.Source = r.reference.meta.source

\* C11: the summary report has one row per yielded cell-line, in iteration
\* order, and the row carries the score, the shared-allele count and the
\* source of a ProfileResult of that cell-line that is maximal under
\* (score, shared_alleles, slug)
C11_SummaryRows ==
    /\ Len(summary) = Len(yielded)
    /\ \A i \in 1..Len(yielded) :
          \E k \in 1..Len(yielded[i].results) :
              /\ IsMaximal(yielded[i].results[k], yielded[i].results)
              /\ Carries(summary[i], yielded[i], yielded[i].results[k])

\* two cell-lines were reported, and in one of them two results tie on score
\* and shared alleles, so that the source decides and the later result wins
C11_Witness ==
    /\ Len(summary) = 2
    /\ \E i \in 1..2 :
          /\ Len(yielded[i].results) = 2
          /\ yielded[i].results[1].score = yielded[i].results[2].score
          /\ yielded[i].results[1].shared_alleles = yielded[i].results[2].shared_alleles
          /\ RankedBefore(yielded[i].results[1], yielded[i].results[2])
          /\ summary[i].Source = yielded[i].results[2].reference.meta.source

RowsOf(cell_line) == IF Len(cell_line.results) = 1 THEN 1 ELSE 2

RECURSIVE RowsUpTo(_)
RowsUpTo(i) == IF i = 0 THEN 1 ELSE RowsUpTo(i - 1) + RowsOf(yielded[i])

\* C12: once the full report is started its first row is the query row; every
\* yielded cell-line then adds one "only" row if it holds exactly one
\* ProfileResult, else a "best" row of a maximal result followed by a "worst"
\* row of a minimal one, so that the report has 1 + sum of min(2, #results) rows
C12_FullReportRows ==
    pc \in {"iterating", "stopped"} =>
        /\ Len(full_report) = RowsUpTo(Len(yielded))
        /\ full_report[1].Status = "query"
        /\ full_report[1].Sample = query.meta.sample
        /\ \A i \in 1..Len(yielded) :
              LET results == yielded[i].results
                  first == full_report[RowsUpTo(i - 1) + 1]
              IN  IF Len(results) = 1
                  THEN first.Status = "only" /\ Carries(first, yielded[i], results[1])
                  ELSE LET second == full_report[RowsUpTo(i - 1) + 2]
                       IN  /\ first.Status = "best" /\ second.Status = "worst"
                           /\ \E k \in 1..Len(results) :
                                 /\ IsMaximal(results[k], results)
                                 /\ Carries(first, yielded[i], results[k])
                           /\ \E k \in 1..Len(results) :
                                 /\ IsMinimal(results[k], results)
                                 /\ Carries(second, yielded[i], results[k])

\* a cell-line with one result and a cell-line with two were both reported
C12_Witness ==
    /\ pc = "stopped" /\ Len(yielded) = 2 /\ Len(full_report) = 4
    /\ \E i \in 1..4 : full_report[i].Status = "only"
    /\ \E i \in 1..3 :
          /\ full_report[i].Status = "best" /\ full_report[i + 1].Status = "worst"
          /\ full_report[i].Score # full_report[i + 1].Score

----------------------------------------------------------------------------
(* Properties of the scoring engine, checked under ScoreSpec *)

\* the marker set a score is evaluated on, stated from the two profiles
EvaluatedMarkers(q, r, md, am) ==
    {m \in AllMarkers :
        /\ (md = "intersect" => m \in DOMAIN q.alleles /\ m \in DOMAIN r.alleles)
        /\ (md = "query" => m \in DOMAIN q.alleles)
        /\ (md = "reference" => m \in DOMAIN r.alleles)
        /\ (m = "Amelogenin" => am)}

\* the (marker, allele) pairs a profile holds within a marker set
PairsWithin(p, ms) ==
    {pair \in ms \X (RegularAlleles \cup SexAlleles) :
        pair[1] \in DOMAIN p.alleles /\ pair[2] \in p.alleles[pair[1]]}

CountS == Cardinality(PairsWithin(query, EvaluatedMarkers(query, reference, mode, amel))
                      \cap PairsWithin(reference, EvaluatedMarkers(query, reference, mode, amel)))
CountQ == Cardinality(PairsWithin(query, EvaluatedMarkers(query, reference, mode, amel)))
CountR == Cardinality(PairsWithin(reference, EvaluatedMarkers(query, reference, mode, amel)))

\* fraction f equals num/den (den > 0)
FracIs(f, num, den) == f[2] > 0 /\ f[1] * den = num * f[2]

C6_ScoreInUnitInterval ==
    (pc # "call" /\ algorithm \in Algorithms /\ mode \in Modes) =>
        /\ pc = "returned"
        /\ score_result.raised = ""
        /\ FracLe(Zero, score_result.score)
        /\ FracLe(score_result.score, One)

\* nothing to evaluate: both allele counts are 0
C6_Witness ==
    /\ pc = "returned" /\ algorithm = "Tanabe"
    /\ CountQ = 0 /\ CountR = 0
    /\ score_result.score = Zero

\* C7 as stated: scoring a profile against itself under Tanabe/intersect gives
\* 1.0 and every evaluated (marker, allele) pair as shared.
C7_SelfScoreAlwaysOne ==
    (pc = "returned" /\ query = reference /\ algorithm = "Tanabe" /\ mode = "intersect") =>
        /\ score_result.score = One
        /\ score_result.shared_alleles = CountQ

\* C7 amended: scoring a profile against itself under Tanabe/intersect shares
\* every evaluated (marker, allele) pair; the score is 1.0 when there is at
\* least one such pair and 0.0 when there is none.
C7_SelfScore ==
    (pc = "returned" /\ query = reference /\ algorithm = "Tanabe" /\ mode = "intersect") =>
        /\ score_result.shared_alleles = CountQ
        /\ (CountQ > 0 => score_result.score = One)
        /\ (CountQ = 0 => score_result.score = Zero)

C7_Witness ==
    /\ pc = "returned" /\ query = reference /\ algorithm = "Tanabe" /\ mode = "intersect"
    /\ ~amel /\ "Amelogenin" \in markers(query)
    /\ score_result.shared_alleles = 3 /\ score_result.score = One

\* C8 as stated: under Tanabe, with mode and Amelogenin setting fixed,
\* score(A, B) and score(B, A) agree in score and shared-allele count.
C8_TanabeSymmetricAnyMode ==
    (pc = "returned" /\ algorithm = "Tanabe") =>
        LET swapped == score(reference, query, algorithm, mode, amel)
        IN  /\ swapped.score = score_result.score
            /\ swapped.shared_alleles = score_result.shared_alleles

OtherMode(md) == IF md = "query" THEN "reference"
                 ELSE IF md = "reference" THEN "query" ELSE md

\* C8 amended: under Tanabe the shared-allele count is symmetric in every
\* mode; the score is symmetric in intersect mode, and score(A, B) in query
\* mode equals score(B, A) in reference mode (and conversely).
C8_TanabeSymmetric ==
    (pc = "returned" /\ algorithm = "Tanabe") =>
        LET swapped == score(reference, query, algorithm, mode, amel)
            mirrored == score(reference, query, algorithm, OtherMode(mode), amel)
        IN  /\ swapped.shared_alleles = score_result.shared_alleles
            /\ (mode = "intersect" => swapped.score = score_result.score)
            /\ mirrored.score = score_result.score
            /\ mirrored.shared_alleles = score_result.shared_alleles

C8_Witness ==
    /\ pc = "returned" /\ algorithm = "Tanabe" /\ mode = "intersect"
    /\ query # reference
    /\ CountQ # CountR
    /\ score_result.score = <<4, 5>>

\* a profile without its Amelogenin entry
WithoutAmelogenin(p) ==
    [p EXCEPT !.alleles = [m \in (DOMAIN p.alleles) \ {"Amelogenin"} |-> p.alleles[m]]]

\* C9: with the Amelogenin flag false, score and shared-allele count are those
\* of the two profiles with their Amelogenin entries removed, in every mode
\* and under every algorithm.
C9_AmelogeninExcluded ==
    (pc = "returned" /\ ~amel) =>
        LET stripped == score(WithoutAmelogenin(query), WithoutAmelogenin(reference),
                              algorithm, mode, TRUE)
        IN  /\ score_result.score = stripped.score
            /\ score_result.shared_alleles = stripped.shared_alleles
            /\ "Amelogenin" \notin score_result.markers

\* the two profiles disagree on Amelogenin and the query mode is used
C9_Witness ==
    /\ pc = "returned" /\ ~amel /\ mode = "query"
    /\ "Amelogenin" \in markers(query) /\ "Amelogenin" \in markers(reference)
    /\ query.alleles["Amelogenin"] # reference.alleles["Amelogenin"]
    /\ score_result.shared_alleles > 0

\* C10: an unsupported algorithm or mode makes score raise an error naming the
\* bad value, whatever the profiles hold and before any marker set is taken.
C10_BadArgumentRaises ==
    (pc # "call" /\ (algorithm \notin Algorithms \/ mode \notin Modes)) =>
        /\ pc = "raised"
        /\ score_result.raised = "ValueError"
        /\ (algorithm \notin Algorithms =>
                /\ score_result.message = "unsupported scoring algorithm"
                /\ score_result.value = algorithm)
        /\ (algorithm \in Algorithms =>
                /\ score_result.message = "unsupported scoring mode"
                /\ score_result.value = mode)
        /\ score_result.markers = NotComputed
        /\ score_result.shared_alleles = 0

C10_Witness ==
    /\ pc = "raised" /\ algorithm = "Tanabe" /\ mode = "lizard"
    /\ score_result.value = "lizard"

----------------------------------------------------------------------------
(* Marker registry: markers.py.  A marker name is a str, kept here as the   *)
(* sequence of its characters so that spaces and case can be worked on.     *)

UpperCase ==
    <<"A", "B", "C", "D", "E", "F", "G", "H", "I", "J", "K", "L", "M",
      "N", "O", "P", "Q", "R", "S", "T", "U", "V", "W", "X", "Y", "Z">>
LowerCase ==
    <<"a", "b", "c", "d", "e", "f", "g", "h", "i", "j", "k", "l", "m",
      "n", "o", "p", "q", "r", "s", "t", "u", "v", "w", "x", "y", "z">>

\* str.lower / str.upper / str.replace(" ", "")
lower_char(c) ==
    IF \E i \in 1..26 : UpperCase[i] = c
    THEN LowerCase[CHOOSE i \in 1..26 : UpperCase[i] = c] ELSE c
upper_char(c) ==
    IF \E i \in 1..26 : LowerCase[i] = c
    THEN UpperCase[CHOOSE i \in 1..26 : LowerCase[i] = c] ELSE c
lower(name) == [i \in 1..Len(name) |-> lower_char(name[i])]
upper(name) == [i \in 1..Len(name) |-> upper_char(name[i])]
NotSpace(c) == c # " "
replace_spaces(name) == SelectSeq(name, NotSpace)

\* valid_names: taxid -> list of canonical names, in the order of the dict
valid_names ==
    <<[taxid |-> 9606, names |-> <<
        <<"A", "m", "e", "l", "o", "g", "e", "n", "i", "n">>,
        <<"C", "S", "F", "1", "P", "O">>,
        <<"D", "1", "0", "S", "1", "2", "4", "8">>,
        <<"D", "1", "2", "S", "3", "9", "1">>,
        <<"D", "1", "3", "S", "3", "1", "7">>,
        <<"D", "1", "6", "S", "5", "3", "9">>,
        <<"D", "1", "7", "S", "1", "3", "0", "1">>,
        <<"D", "1", "8", "S", "5", "1">>,
        <<"D", "1", "9", "S", "4", "3", "3">>,
        <<"D", "1", "S", "1", "6", "5", "6">>,
        <<"D", "2", "0", "S", "4", "8", "2">>,
        <<"D", "2", "1", "S", "1", "1">>,
        <<"D", "2", "2", "S", "1", "0", "4", "5">>,
        <<"D", "2", "S", "1", "3", "3", "8">>,
        <<"D", "2", "S", "4", "4", "1">>,
        <<"D", "3", "S", "1", "3", "5", "8">>,
        <<"D", "4", "S", "2", "4", "0", "8">>,
        <<"D", "5", "S", "8", "1", "8">>,
        <<"D", "6", "S", "1", "0", "4", "3">>,
        <<"D", "7", "S", "8", "2", "0">>,
        <<"D", "8", "S", "1", "1", "7", "9">>,
        <<"D", "9", "S", "1", "1", "2", "2">>,
        <<"D", "X", "S", "1", "0", "0", "7", "4">>,
        <<"D", "X", "S", "1", "0", "1">>,
        <<"D", "X", "S", "1", "0", "1", "0", "3">>,
        <<"D", "X", "S", "1", "0", "1", "3", "5">>,
        <<"D", "X", "S", "7", "1", "3", "2">>,
        <<"D", "X", "S", "7", "4", "2", "3">>,
        <<"D", "X", "S", "8", "3", "7", "8">>,
        <<"D", "Y", "F", "3", "8", "7", "S", "1">>,
        <<"D", "Y", "S", "1", "9">>,
        <<"D", "Y", "S", "3", "8", "5", "a", "-", "b">>,
        <<"D", "Y", "S", "3", "8", "9", "I">>,
        <<"D", "Y", "S", "3", "8", "9", "I", "I">>,
        <<"D", "Y", "S", "3", "9", "0">>, <<"D", "Y", "S", "3", "9", "1">>,
        <<"D", "Y", "S", "3", "9", "1">>, <<"D", "Y", "S", "3", "9", "2">>,
        <<"D", "Y", "S", "4", "3", "7">>, <<"D", "Y", "S", "4", "3", "8">>,
        <<"D", "Y", "S", "4", "3", "9">>, <<"D", "Y", "S", "4", "4", "8">>,
        <<"D", "Y", "S", "4", "6", "0">>, <<"D", "Y", "S", "4", "8", "1">>,
        <<"D", "Y", "S", "5", "0", "5">>, <<"D", "Y", "S", "5", "2", "2">>,
        <<"D", "Y", "S", "5", "3", "3">>, <<"D", "Y", "S", "5", "4", "9">>,
        <<"D", "Y", "S", "5", "7", "0">>, <<"D", "Y", "S", "5", "7", "0">>,
        <<"D", "Y", "S", "5", "7", "6">>, <<"D", "Y", "S", "5", "7", "6">>,
        <<"D", "Y", "S", "6", "1", "2">>, <<"D", "Y", "S", "6", "3", "5">>,
        <<"D", "Y", "S", "6", "4", "3">>, <<"F", "1", "3", "A", "0", "1">>,
        <<"F", "1", "3", "B">>, <<"F", "E", "S", "F", "P", "S">>,
        <<"F", "G", "A">>, <<"H", "P", "R", "T", "B">>, <<"L", "P", "L">>,
        <<"P", "e", "n", "t", "a", " ", "C">>,
        <<"P", "e", "n", "t", "a", " ", "D">>,
        <<"P", "e", "n", "t", "a", " ", "E">>, <<"S", "E", "3", "3">>,
        <<"T", "H", "0", "1">>, <<"T", "P", "O", "X">>,
        <<"Y", "-", "G", "A", "T", "A", "-", "H", "4">>, <<"v", "W", "A">>>>],
      [taxid |-> 10090, names |-> <<
        <<"M", "o", "u", "s", "e", " ", "S", "T", "R", " ", "1", "-", "1">>,
        <<"M", "o", "u", "s", "e", " ", "S", "T", "R", " ", "1", "-", "2">>,
        <<"M", "o", "u", "s", "e", " ", "S", "T", "R", " ", "2", "-", "1">>,
        <<"M", "o", "u", "s", "e", " ", "S", "T", "R", " ", "3", "-", "2">>,
        <<"M", "o", "u", "s", "e", " ", "S", "T", "R", " ", "4", "-", "2">>,
        <<"M", "o", "u", "s", "e", " ", "S", "T", "R", " ", "5", "-", "5">>,
        <<"M", "o", "u", "s", "e", " ", "S", "T", "R", " ", "6", "-", "4">>,
        <<"M", "o", "u", "s", "e", " ", "S", "T", "R", " ", "6", "-", "7">>,
        <<"M", "o", "u", "s", "e", " ", "S", "T", "R", " ", "7", "-", "1">>,
        <<"M", "o", "u", "s", "e", " ", "S", "T", "R", " ", "8", "-", "1">>,
        <<"M", "o", "u", "s", "e", " ", "S", "T", "R", " ", "9", "-", "2">>,
        <<"M", "o", "u", "s", "e", " ", "S", "T", "R", " ", "1", "1", "-", "2">>,
        <<"M", "o", "u", "s", "e", " ", "S", "T", "R", " ", "1", "2", "-", "1">>,
        <<"M", "o", "u", "s", "e", " ", "S", "T", "R", " ", "1", "3", "-", "1">>,
        <<"M", "o", "u", "s", "e", " ", "S", "T", "R", " ", "1", "5", "-", "3">>,
        <<"M", "o", "u", "s", "e", " ", "S", "T", "R", " ", "1", "7", "-", "2">>,
        <<"M", "o", "u", "s", "e", " ", "S", "T", "R", " ", "1", "8", "-", "3">>,
        <<"M", "o", "u", "s", "e", " ", "S", "T", "R", " ", "1", "9", "-", "2">>,
        <<"M", "o", "u", "s", "e", " ", "S", "T", "R", " ", "X", "-", "1">>>>],
      [taxid |-> 9615, names |-> <<
        <<"D", "o", "g", " ", "F", "H", "C", "2", "0", "1", "0">>,
        <<"D", "o", "g", " ", "F", "H", "C", "2", "0", "5", "4">>,
        <<"D", "o", "g", " ", "F", "H", "C", "2", "0", "7", "9">>,
        <<"D", "o", "g", " ", "P", "E", "Z", "1">>,
        <<"D", "o", "g", " ", "P", "E", "Z", "3">>,
        <<"D", "o", "g", " ", "P", "E", "Z", "5">>,
        <<"D", "o", "g", " ", "P", "E", "Z", "6">>,
        <<"D", "o", "g", " ", "P", "E", "Z", "8">>,
        <<"D", "o", "g", " ", "P", "E", "Z", "1", "2">>,
        <<"D", "o", "g", " ", "P", "E", "Z", "2", "0">>>>]>>

species_by_taxid(t) ==
    CASE t = 9606 -> <<"h", "u", "m", "a", "n">>
      [] t = 10090 -> <<"m", "o", "u", "s", "e">>
      [] t = 9615 -> <<"d", "o", "g">>

\* (None, None)
None == [resolved |-> FALSE, name |-> <<>>, taxid |-> 0]

\* the loops of standardize_name with the names of the registry compared as
\* they are written but for their spaces
first_match_mut(candidate, registry) ==
    LET Hit(t, i) == candidate = replace_spaces(registry[t].names[i])
        Hits == {<<t, i>> \in (1..Len(registry)) \X (1..69) :
                    i <= Len(registry[t].names) /\ Hit(t, i)}
    IN  IF Hits = {} THEN None
        ELSE LET first == CHOOSE h \in Hits :
                              \A g \in Hits : h[1] < g[1] \/ (h[1] = g[1] /\ h[2] <= g[2])
             IN  [resolved |-> TRUE, name |-> registry[first[1]].names[first[2]],
                  taxid |-> registry[first[1]].taxid]

\* the loops of standardize_name: the first name of the registry, species by
\* species, that equals the candidate once spaces are removed and case is
\* lowered
first_match(candidate, registry) ==
    LET Hit(t, i) == candidate = lower(replace_spaces(registry[t].names[i]))
        Hits == {<<t, i>> \in (1..Len(registry)) \X (1..69) :
                    i <= Len(registry[t].names) /\ Hit(t, i)}
    IN  IF Hits = {} THEN None
        ELSE LET first == CHOOSE h \in Hits :
                              \A g \in Hits : h[1] < g[1] \/ (h[1] = g[1] /\ h[2] <= g[2])
             IN  [resolved |-> TRUE, name |-> registry[first[1]].names[first[2]],
                  taxid |-> registry[first[1]].taxid]

\* the case of the raw name is kept
standardize_name_mut(name) == first_match_mut(replace_spaces(name), valid_names)

\* standardize_name
standardize_name(name) == first_match(lower(replace_spaces(name)), valid_names)

\* the keys of the dict `valid`: the names in the order they first occur
RECURSIVE dict_keys(_, _)
dict_keys(names, seen) ==
    IF names = <<>> THEN seen
    ELSE dict_keys(Tail(names),
                   IF \E i \in 1..Len(seen) : seen[i] = Head(names)
                   THEN seen ELSE Append(seen, Head(names)))

\* sorted(...) of a set of str
RECURSIVE sorted_strings(_)
sorted_strings(S) ==
    IF S = {} THEN <<>>
    ELSE LET least == CHOOSE x \in S : \A y \in S : ~StrLt(y, x)
         IN  <<least>> \o sorted_strings(S \ {least})

NamesOutcome(outcome, valid, tx, names, species) ==
    [outcome |-> outcome, valid |-> valid, taxid |-> tx, names |-> names,
     species |-> species]

\* the loop of validate_names: the dict `valid`, in the order of its keys
standardized(keys) ==
    [i \in 1..Len(keys) |-> [raw |-> keys[i], canonical |-> standardize_name(keys[i])]]

IsInvalid(entry) == ~entry.canonical.resolved

\* validate_names after its loop
names_outcome(valid) ==
    LET taxids == {valid[i].canonical.taxid : i \in {j \in 1..Len(valid) :
                                                        valid[j].canonical.resolved}}
        none_in_taxids == \E i \in 1..Len(valid) : ~valid[i].canonical.resolved
        invalid == SelectSeq(valid, IsInvalid)
    IN  IF none_in_taxids
        THEN NamesOutcome("ValueError: invalid marker name(s)", <<>>, 0,
                          [i \in 1..Len(invalid) |-> invalid[i].raw], <<>>)
        ELSE IF Cardinality(taxids) > 1
        THEN NamesOutcome("ValueError: markers from different species", <<>>, 0, <<>>,
                          sorted_strings({species_by_taxid(t) : t \in taxids}))
        ELSE IF taxids = {}
        THEN NamesOutcome("KeyError: pop from an empty set", <<>>, 0, <<>>, <<>>)
        ELSE NamesOutcome("returned", valid, CHOOSE t \in taxids : TRUE, <<>>, <<>>)

\* validate_names
validate_names(names) == names_outcome(standardized(dict_keys(names, <<>>)))

----------------------------------------------------------------------------
(* Specification of the registry functions: a caller resolves one raw name  *)
(* or validates one list of raw names.                                      *)

SearchIdle ==
    /\ query = SearchQuery /\ reference = SearchQuery /\ db = <<>>
    /\ algorithm = "Tanabe" /\ mode = "intersect" /\ amel = FALSE
    /\ taxid = <<>> /\ minscore = Zero /\ maxhits = 0
    /\ score_result = NoResult
    /\ results_by_cell_line = <<>> /\ sorted_ids = <<>> /\ n = 0
    /\ yielded = <<>> /\ stop_reason = ""
    /\ summary = <<>> /\ full_report = <<>>

RegistryNames ==
    UNION {{valid_names[t].names[i] : i \in 1..Len(valid_names[t].names)} :
           t \in 1..Len(valid_names)}

\* a space put after the first character
spaced(name) == <<Head(name), " ">> \o Tail(name)

UnknownNames == {<<"P", "e", "n", "t", "a", " ", "G">>, <<"f", "o", "o">>, <<"T", "H", " ", "0", "2">>, <<>>}

RawNameArgs ==
    RegistryNames \cup {lower(x) : x \in RegistryNames}
                  \cup {upper(x) : x \in RegistryNames}
                  \cup {replace_spaces(x) : x \in RegistryNames}
                  \cup {spaced(lower(x)) : x \in RegistryNames}
                  \cup UnknownNames

MaxNames == 3

NamePool ==
    {<<"T", "H", "0", "1">>, <<"t", "h", " ", "0", "1">>, <<"v", "W", "A">>, <<"D", "o", "g", "P", "E", "Z", "8">>, <<"M", "o", "u", "s", "e", " ", "S", "T", "R", " ", "1", "-", "1">>, <<"P", "e", "n", "t", "a", " ", "G">>,
     <<"f", "o", "o">>}

MarkerNamesArgs == UNION {[1..k -> NamePool] : k \in 0..MaxNames}

MarkerInit ==
    /\ pc = "ready"
    /\ SearchIdle /\ LoadIdle /\ MarkersIdle /\ StoreIdle /\ ReprIdle

\* standardize_name(raw)
StandardizeName ==
    /\ pc = "ready"
    /\ \E raw \in RawNameArgs :
         /\ raw_name' = raw
         /\ name_result' = standardize_name(raw)
    /\ pc' = "standardized"
    /\ UNCHANGED <<marker_names, names_result>>
    /\ UNCHANGED <<searchVars, loadVars, storeVars, reprVars>>

\* validate_names(names)
ValidateNames ==
    /\ pc = "ready"
    /\ \E names \in MarkerNamesArgs :
         /\ marker_names' = names
         /\ names_result' = validate_names(names)
    /\ pc' = IF names_result'.outcome = "returned" THEN "validated" ELSE "raised"
    /\ UNCHANGED <<raw_name, name_result>>
    /\ UNCHANGED <<searchVars, loadVars, storeVars, reprVars>>

MarkerNext == StandardizeName \/ ValidateNames

MarkerSpec == MarkerInit /\ [][MarkerNext]_vars

----------------------------------------------------------------------------
(* Properties of the registry functions, checked under MarkerSpec *)

\* stated from the registry alone
Folded(name) == lower(replace_spaces(name))
RegistryPairs ==
    UNION {{<<valid_names[t].names[i], valid_names[t].taxid>> :
                i \in 1..Len(valid_names[t].names)} : t \in 1..Len(valid_names)}
Resolvable(name) == \E p \in RegistryPairs : Folded(p[1]) = Folded(name)
SpeciesOf(name) ==
    {species_by_taxid(p[2]) : p \in {q \in RegistryPairs : Folded(q[1]) = Folded(name)}}
GivenNames == {marker_names[i] : i \in 1..Len(marker_names)}

\* C17: validate_names fails with an invalid-marker error listing every
\* unresolvable raw name whenever one name is unresolvable; when all names
\* resolve but span more than one species it fails with a mixed-species error
\* naming every species; otherwise it returns the raw-to-canonical mapping
\* and the single taxid
C17_ValidateNamesOutcomes ==
    pc \in {"validated", "raised"} =>
        LET unresolved == {x \in GivenNames : ~Resolvable(x)}
            species == UNION {SpeciesOf(x) : x \in GivenNames}
        IN  IF unresolved # {}
            THEN /\ names_result.outcome = "ValueError: invalid marker name(s)"
                 /\ {names_result.names[i] : i \in 1..Len(names_result.names)} = unresolved
            ELSE IF Cardinality(species) > 1
            THEN /\ names_result.outcome = "ValueError: markers from different species"
                 /\ {names_result.species[i] : i \in 1..Len(names_result.species)} = species
            ELSE /\ names_result.outcome = "returned"
                 /\ {names_result.valid[i].raw : i \in 1..Len(names_result.valid)} = GivenNames
                 /\ \A i \in 1..Len(names_result.valid) :
                      /\ names_result.valid[i].canonical.resolved
                      /\ Folded(names_result.valid[i].canonical.name)
                           = Folded(names_result.valid[i].raw)
                      /\ <<names_result.valid[i].canonical.name, names_result.taxid>>
                           \in RegistryPairs

\* the same, for a list of at least one name
C17_NonEmptyOutcomes == marker_names # <<>> => C17_ValidateNamesOutcomes

\* C18: two raw names that are equal after removing spaces and lower-casing
\* resolve to the same (canonical name, taxid); resolving a canonical name
\* returns that same canonical name and taxid, for every name of the registry
C18_ResolutionFoldsAndIdempotent ==
    pc = "standardized" =>
        /\ \A v \in {lower(raw_name), upper(raw_name), replace_spaces(raw_name),
                     IF raw_name = <<>> THEN <<" ">> ELSE spaced(raw_name)} :
              standardize_name(v) = name_result
        /\ name_result.resolved => standardize_name(name_result.name) = name_result
        /\ \A p \in RegistryPairs :
              raw_name = p[1] =>
                  name_result = [resolved |-> TRUE, name |-> p[1], taxid |-> p[2]]

\* a raw name in another case and with another spacing than its canonical name
C18_Witness ==
    /\ pc = "standardized"
    /\ raw_name = <<"m", " ", "o", "u", "s", "e", " ", "s", "t", "r", " ", "1", "-", "1">>
    /\ name_result = [resolved |-> TRUE, name |-> <<"M", "o", "u", "s", "e", " ", "S", "T", "R", " ", "1", "-", "1">>, taxid |-> 10090]

----------------------------------------------------------------------------
(* Flat-file parser: db.py.  A line is kept as the groups its regular       *)
(* expression captures, or as a line the expression does not match.  A      *)
(* marker name and an allele string are sequences of characters, every      *)
(* other value is a string.                                                 *)

Line(code, form, value, marker, allele_str, sources) ==
    [code |-> code, form |-> form, value |-> value, marker |-> marker,
     allele_str |-> allele_str, sources |-> sources]

\* "ID   <value>", "AC   <value>", "SY   <value>"
MetaLine(code, value) == Line(code, "", value, <<>>, <<>>, <<>>)
\* "OX   NCBI_TaxID=<digits>; ! <organism>"; `digits` is what stands after "="
OXLine(digits, organism) == Line("OX", "", organism, digits, <<>>, <<>>)
\* "ST   Source(s): <source>; <source>"
SourcesLine(sources) == Line("ST", "Source(s)", "", <<>>, <<>>, sources)
\* "ST   Source: <source>", which holds "Source" and fails the expression
BadSourcesLine == Line("ST", "Source", "", <<>>, <<>>, <<"ATCC">>)
\* "ST   <marker>: <alleles>" and "ST   <marker>: <alleles> (<source>; <source>)";
\* the group of the alleles takes the space before the parenthesis
AllelesLine(marker, allele_str) == Line("ST", "alleles", "", marker, allele_str, <<>>)
AllelesLineFor(marker, allele_str, sources) ==
    Line("ST", "alleles", "(", marker, allele_str, sources)
\* "ST   <marker>: Not_detected"
NotDetectedLine(marker) == Line("ST", "Not_detected", "", marker, <<>>, <<>>)
\* "ST   TH01 7": no colon, the expression does not match
BadAllelesLine == Line("ST", "no match", "", <<>>, <<>>, <<>>)

\* an ordered dict as the sequence of its items
HasItem(d, key) == \E i \in 1..Len(d) : d[i].key = key
Item(d, key) == d[CHOOSE i \in 1..Len(d) : d[i].key = key].value
SetItem(d, key, value) ==
    IF HasItem(d, key)
    THEN [i \in 1..Len(d) |-> IF d[i].key = key THEN [key |-> key, value |-> value]
                              ELSE d[i]]
    ELSE Append(d, [key |-> key, value |-> value])

\* int(taxid) for the group (\d+)
Digits == <<"0", "1", "2", "3", "4", "5", "6", "7", "8", "9">>
IsDigit(c) == \E i \in 1..10 : Digits[i] = c
digit_value(c) == (CHOOSE i \in 1..10 : Digits[i] = c) - 1
RECURSIVE int(_)
int(text) ==
    IF text = <<>> THEN 0
    ELSE 10 * int(SubSeq(text, 1, Len(text) - 1)) + digit_value(text[Len(text)])

\* the keys of CellosaurusEntry.meta
meta_keys(m) == {k \in DOMAIN m : m[k] # <<>>}

\* CellosaurusEntry.ATTRIBUTES
ATTRIBUTES(key) ==
    CASE key = "ID" -> "identifier"
      [] key = "AC" -> "accession"
      [] key = "SY" -> "synonyms"

\* CellosaurusEntry.parse_meta
parse_meta(m, line) ==
    IF line.code \in {"ID", "AC", "SY"}
    THEN IF line.code \in meta_keys(m)
         THEN [raised |-> "AssertionError", meta |-> m]
         ELSE [raised |-> "", meta |-> [m EXCEPT ![ATTRIBUTES(line.code)] = <<line.value>>]]
    ELSE IF line.code = "OX"
    THEN IF line.marker = <<>> \/ \E i \in 1..Len(line.marker) : ~IsDigit(line.marker[i])
         THEN [raised |-> "ValueError: cannot parse species of origin", meta |-> m]
         ELSE [raised |-> "",
               meta |-> [m EXCEPT !.taxid = Append(@, int(line.marker)),
                                  !.organism = Append(@, line.value)]]
    ELSE [raised |-> "", meta |-> m]

RECURSIVE declare_sources(_, _)
declare_sources(al, sources) ==
    IF sources = <<>> THEN al
    ELSE declare_sources(SetItem(al, Head(sources), <<>>), Tail(sources))

\* CellosaurusEntry.parse_sources
parse_sources(al, line) ==
    IF line.code = "ST" /\ line.form \in {"Source(s)", "Source"}
    THEN IF line.form # "Source(s)"
         THEN [raised |-> "ValueError: could not parse sources", alleles |-> al]
         ELSE [raised |-> "", alleles |-> declare_sources(al, line.sources)]
    ELSE [raised |-> "", alleles |-> al]

\* the loop over the sources an allele line lists, a source that was not
\* defined being defined by the line
RECURSIVE assign_listed_mut(_, _, _, _)
assign_listed_mut(state, sources, marker, allele_str) ==
    IF sources = <<>> THEN state
    ELSE assign_listed_mut(
             [state EXCEPT !.alleles =
                 SetItem(@, Head(sources),
                         SetItem(IF HasItem(@, Head(sources)) THEN Item(@, Head(sources))
                                 ELSE <<>>, marker, allele_str))],
             Tail(sources), marker, allele_str)

\* the loop over the sources an allele line lists
RECURSIVE assign_listed(_, _, _, _)
assign_listed(state, sources, marker, allele_str) ==
    IF sources = <<>> THEN state
    ELSE assign_listed(
             IF ~HasItem(state.alleles, Head(sources))
             THEN [state EXCEPT !.warnings = Append(@, Head(sources))]
             ELSE [state EXCEPT !.alleles =
                      SetItem(@, Head(sources),
                              SetItem(Item(@, Head(sources)), marker, allele_str))],
             Tail(sources), marker, allele_str)

\* str.strip
RECURSIVE lstrip(_)
lstrip(text) == IF text # <<>> /\ Head(text) = " " THEN lstrip(Tail(text)) ELSE text
RECURSIVE rstrip(_)
rstrip(text) ==
    IF text # <<>> /\ text[Len(text)] = " " THEN rstrip(SubSeq(text, 1, Len(text) - 1))
    ELSE text
strip(text) == rstrip(lstrip(text))

\* CellosaurusEntry.parse_alleles
parse_alleles(al, m, line) ==
    IF line.code = "ST" /\ line.form \notin {"Source(s)", "Source", "Not_detected"}
    THEN IF line.form # "alleles"
         THEN [raised |-> "ValueError: could not parse STR profile data",
               alleles |-> al, warnings |-> <<>>]
         ELSE IF line.value = ""
         THEN [raised |-> "",
               alleles |-> [i \in 1..Len(al) |->
                              [key |-> al[i].key,
                               value |-> SetItem(al[i].value, line.marker,
                                                strip(line.allele_str))]],
               warnings |-> <<>>]
         ELSE IF m.identifier = <<>>
                 /\ \E i \in 1..Len(line.sources) : ~HasItem(al, line.sources[i])
         THEN [raised |-> "KeyError: identifier", alleles |-> al, warnings |-> <<>>]
         ELSE assign_listed([raised |-> "", alleles |-> al, warnings |-> <<>>],
                            line.sources, line.marker, strip(line.allele_str))
    ELSE [raised |-> "", alleles |-> al, warnings |-> <<>>]

\* CellosaurusEntry.__init__, one line: parse_meta, parse_sources, parse_alleles
parse_line(m, al, line) ==
    LET r1 == parse_meta(m, line)
        r2 == parse_sources(al, line)
        r3 == parse_alleles(r2.alleles, r1.meta, line)
    IN  IF r1.raised # ""
        THEN [raised |-> r1.raised, meta |-> m, alleles |-> al, warnings |-> <<>>]
        ELSE IF r2.raised # ""
        THEN [raised |-> r2.raised, meta |-> r1.meta, alleles |-> al, warnings |-> <<>>]
        ELSE [raised |-> r3.raised, meta |-> r1.meta, alleles |-> r3.alleles,
              warnings |-> r3.warnings]

\* metadata of a pair: taxid and organism are never collapsed
pair_metadata_mut(m, source) ==
    [identifier |-> m.identifier, accession |-> m.accession, synonyms |-> m.synonyms,
     taxid |-> List(m.taxid), organism |-> List(m.organism), source |-> source]

\* CellosaurusEntry.profiles, the metadata of one pair
pair_metadata(m, source) ==
    [identifier |-> m.identifier, accession |-> m.accession, synonyms |-> m.synonyms,
     taxid |-> IF Len(m.taxid) = 1 THEN Scalar(m.taxid[1]) ELSE List(m.taxid),
     organism |-> IF Len(m.taxid) = 1 THEN Scalar(m.organism[1]) ELSE List(m.organism),
     source |-> source]

\* str.split(","): the pieces between the commas
RECURSIVE split(_, _)
split(text, piece) ==
    IF text = <<>> THEN <<piece>>
    ELSE IF Head(text) = "," THEN <<piece>> \o split(Tail(text), <<>>)
    ELSE split(Tail(text), Append(piece, Head(text)))

\* Profile.parse_allele_string
parse_allele_string(allele_str) ==
    LET tokens == split(replace_spaces(allele_str), <<>>)
    IN  {tokens[i] : i \in 1..Len(tokens)}

RECURSIVE profile_alleles(_, _, _)
profile_alleles(items, valid, acc) ==
    IF items = <<>> THEN acc
    ELSE LET raw == Head(items).key
             name == valid[CHOOSE i \in 1..Len(valid) : valid[i].raw = raw].canonical.name
         IN  profile_alleles(Tail(items), valid,
                             SetItem(acc, name, parse_allele_string(Head(items).value)))

\* Profile.__init__ after validate_names
new_profile(names, marker_alleles, metadata) ==
    IF names.outcome # "returned"
    THEN [raised |-> names.outcome, meta |-> metadata, taxid |-> 0, alleles |-> <<>>]
    ELSE [raised |-> "", meta |-> metadata, taxid |-> names.taxid,
          alleles |-> profile_alleles(marker_alleles, names.valid, <<>>)]

\* Profile.__init__
Profile(marker_alleles, metadata) ==
    new_profile(validate_names([i \in 1..Len(marker_alleles) |-> marker_alleles[i].key]),
                marker_alleles, metadata)

\* parse_cellosaurus_records, one pair of entry.profiles: the pair is
\* yielded and the profile is built and yielded, unless it raises
yield_profile(acc, marker_alleles, metadata, profile) ==
    IF profile.raised # ""
    THEN [raised |-> profile.raised,
          pairs |-> Append(acc.pairs, [alleles |-> marker_alleles, metadata |-> metadata]),
          profiles |-> acc.profiles]
    ELSE [raised |-> "",
          pairs |-> Append(acc.pairs, [alleles |-> marker_alleles, metadata |-> metadata]),
          profiles |-> Append(acc.profiles, profile)]

\* the loop of parse_cellosaurus_records over entry.profiles: the pairs
\* yielded and the profiles built, until one raises
RECURSIVE entry_profiles(_, _, _)
entry_profiles(m, al, acc) ==
    IF al = <<>> \/ acc.raised # "" THEN acc
    ELSE IF m.taxid = <<>>
    THEN [acc EXCEPT !.raised = "KeyError: taxid"]
    ELSE entry_profiles(m, Tail(al),
                        yield_profile(acc, Head(al).value, pair_metadata(m, Head(al).key),
                                      Profile(Head(al).value,
                                              pair_metadata(m, Head(al).key))))

\* an exception leaves the profiles parsed before it with the caller
aborted_mut(parsed) == <<parsed>>

\* what convert_from_path hands its caller when an exception ends it: nothing
aborted(parsed) == <<>>

----------------------------------------------------------------------------
(* Specification of a load: convert_from_path reads the blocks of one flat  *)
(* file line by line, turns each finished entry into profiles and returns   *)
(* the database after the last block.                                       *)

TH01 == <<"T", "H", "0", "1">>
TPOX == <<"T", "P", "O", "X">>

MaxLines == 3

\* every record starts with its ID, AC and one OX line
Header(id) ==
    <<MetaLine("ID", id), MetaLine("AC", id), OXLine(<<"9", "6", "0", "6">>, "Homo sapiens")>>

LinePool ==
    { MetaLine("ID", "Other"),
      MetaLine("SY", "Synonym"),
      OXLine(<<"1", "0", "0", "9", "0">>, "Mus musculus"),
      OXLine(<<"9", "6", "0", "6", "x">>, "Homo sapiens"),
      SourcesLine(<<"ATCC", "DSMZ">>),
      SourcesLine(<<"PubMed", "ATCC">>),
      BadSourcesLine,
      AllelesLine(TH01, <<"9", ",", "9", ".", "3">>),
      AllelesLine(<<"M", "o", "u", "s", "e", " ", "S", "T", "R", " ", "1", "-", "1">>, <<"1", "2">>),
      AllelesLine(<<"B", "o", "g", "u", "s">>, <<"9">>),
      AllelesLineFor(TPOX, <<"8", " ">>, <<"DSMZ", "ECACC">>),
      NotDetectedLine(TPOX),
      BadAllelesLine }

Bodies == UNION {[1..k -> LinePool] : k \in 0..MaxLines}

\* records a file of two records is made of
RecordPool ==
    { Header("CVCL_A") \o <<SourcesLine(<<"ATCC", "DSMZ">>),
                            AllelesLine(TH01, <<"9", ",", "9", ".", "3">>)>>,
      Header("CVCL_B") \o <<SourcesLine(<<"ATCC", "DSMZ">>),
                            AllelesLineFor(TPOX, <<"8", " ">>, <<"DSMZ", "ECACC">>)>>,
      Header("CVCL_B") \o <<SourcesLine(<<"ATCC", "DSMZ">>),
                            AllelesLine(TH01, <<"9", ",", "9", ".", "3">>),
                            AllelesLine(<<"M", "o", "u", "s", "e", " ", "S", "T", "R", " ", "1", "-", "1">>, <<"1", "2">>)>>,
      Header("CVCL_B") \o <<SourcesLine(<<"ATCC", "DSMZ">>),
                            AllelesLine(<<"B", "o", "g", "u", "s">>, <<"9">>)>>,
      Header("CVCL_B") \o <<BadAllelesLine>>,
      Header("CVCL_B") \o <<OXLine(<<"9", "6", "0", "6", "x">>, "Homo sapiens")>>,
      Header("CVCL_C") }

Files ==
    {<<Header("CVCL_A") \o body>> : body \in Bodies}
        \cup {<<a, b>> : a \in RecordPool, b \in RecordPool}

LoadInit ==
    /\ pc = "parsing"
    /\ instream \in Files
    /\ block_no = 1 /\ line_no = 0
    /\ meta = NoMeta /\ entry_alleles = <<>> /\ warnings = <<>>
    /\ pairs = <<>> /\ load_error = "" /\ profiles = <<>> /\ loaded = <<>>
    /\ SearchIdle /\ MarkersIdle /\ StoreIdle /\ ReprIdle

\* CellosaurusEntry.__init__: the next line of the block; the first line of
\* a block starts a new entry
ParseLine ==
    /\ pc = "parsing"
    /\ line_no < Len(instream[block_no])
    /\ \E r \in {parse_line(IF line_no = 0 THEN NoMeta ELSE meta,
                           IF line_no = 0 THEN <<>> ELSE entry_alleles,
                           instream[block_no][line_no + 1])} :
           /\ meta' = r.meta
           /\ entry_alleles' = r.alleles
           /\ warnings' = warnings \o r.warnings
           /\ load_error' = r.raised
           /\ pc' = IF r.raised = "" THEN "parsing" ELSE "raised"
           /\ loaded' = IF r.raised = "" THEN loaded ELSE aborted(profiles)
    /\ line_no' = line_no + 1
    /\ UNCHANGED <<instream, block_no, pairs, profiles>>
    /\ UNCHANGED <<searchVars, markerVars, storeVars, reprVars>>

\* parse_cellosaurus_records: the profiles of the entry just parsed are built
\* and appended, then the next block is taken
EntryProfiles ==
    /\ pc = "parsing"
    /\ line_no = Len(instream[block_no])
    /\ \E r \in {entry_profiles(meta, entry_alleles,
                               [raised |-> "", pairs |-> <<>>, profiles |-> profiles])} :
           /\ pairs' = r.pairs
           /\ profiles' = r.profiles
           /\ load_error' = r.raised
           /\ loaded' = IF r.raised = "" THEN loaded ELSE aborted(r.profiles)
           /\ IF r.raised # ""
              THEN pc' = "raised" /\ UNCHANGED <<block_no, line_no>>
              ELSE IF block_no < Len(instream)
              THEN pc' = "parsing" /\ block_no' = block_no + 1 /\ line_no' = 0
              ELSE pc' = "parsed" /\ UNCHANGED <<block_no, line_no>>
    /\ UNCHANGED <<instream, meta, entry_alleles, warnings>>
    /\ UNCHANGED <<searchVars, markerVars, storeVars, reprVars>>

\* convert_from_path after its loop: the count is printed, the database is
\* returned; the loop variable n is unbound when no profile was parsed
Return ==
    /\ pc = "parsed"
    /\ IF profiles = <<>>
       THEN /\ pc' = "raised" /\ load_error' = "UnboundLocalError: n"
            /\ loaded' = aborted(profiles)
       ELSE /\ pc' = "loaded" /\ loaded' = <<profiles>>
            /\ UNCHANGED load_error
    /\ UNCHANGED <<instream, block_no, line_no, meta, entry_alleles, warnings, pairs,
                   profiles>>
    /\ UNCHANGED <<searchVars, markerVars, storeVars, reprVars>>

LoadNext == ParseLine \/ EntryProfiles \/ Return

LoadSpec == LoadInit /\ [][LoadNext]_vars

----------------------------------------------------------------------------
(* Properties of the flat-file parser, checked under LoadSpec *)

\* the block being parsed and the part of it already parsed
Block == instream[block_no]
ParsedLines == SubSeq(Block, 1, line_no)

\* C13: a record in which one of the codes ID, AC and SY appears twice is not
\* parsed: the second line with the code ends the load with an error
C13_DuplicateCodeIsFatal ==
    (\E i, j \in 1..line_no :
         /\ i < j
         /\ ParsedLines[i].code \in {"ID", "AC", "SY"}
         /\ ParsedLines[i].code = ParsedLines[j].code)
        => pc = "raised"

\* what a dict of a source holds for a marker: <<>> if nothing
Held(al, source, marker) ==
    IF HasItem(Item(al, source), marker) THEN <<Item(Item(al, source), marker)>> ELSE <<>>
SourcesOf(al) == [i \in 1..Len(al) |-> al[i].key]
MarkersIn(al) == UNION {{al[i].value[k].key : k \in 1..Len(al[i].value)} : i \in 1..Len(al)}
IsUndeclared(al, source) == ~HasItem(al, source)

\* C14: an ST allele line without a source list assigns its allele list for
\* its marker to every declared source; a line with a source list assigns it
\* only to the listed sources that were declared, and each listed source that
\* was not declared is reported as a warning, does not end the load, gets no
\* assignment and is not added to the sources; a Not_detected line changes
\* nothing.  Nothing else the sources hold is changed by such a line.
C14_AlleleLineAssignment ==
    [][(pc = "parsing" /\ line_no > 0 /\ line_no < Len(Block)
          /\ Block[line_no + 1].code = "ST"
          /\ Block[line_no + 1].form \in {"alleles", "Not_detected"})
       => LET line == Block[line_no + 1]
              listed == {line.sources[i] : i \in 1..Len(line.sources)}
              Undeclared(source) == IsUndeclared(entry_alleles, source)
          IN  /\ pc' = "parsing"
              /\ meta' = meta
              /\ SourcesOf(entry_alleles') = SourcesOf(entry_alleles)
              /\ IF line.form = "Not_detected"
                 THEN entry_alleles' = entry_alleles /\ warnings' = warnings
                 ELSE /\ \A i \in 1..Len(entry_alleles) :
                           LET source == entry_alleles[i].key
                           IN  /\ Held(entry_alleles', source, line.marker)
                                    = IF line.value = "" \/ source \in listed
                                      THEN <<strip(line.allele_str)>>
                                      ELSE Held(entry_alleles, source, line.marker)
                               /\ \A marker \in (MarkersIn(entry_alleles)
                                                   \cup MarkersIn(entry_alleles'))
                                                  \ {line.marker} :
                                      Held(entry_alleles', source, marker)
                                          = Held(entry_alleles, source, marker)
                      /\ warnings' = warnings \o SelectSeq(line.sources, Undeclared)
      ]_vars

\* a line for every source and a line listing a declared source and one that
\* was not declared have both been parsed
C14_Witness ==
    /\ pc = "parsing" /\ line_no = Len(Block)
    /\ SourcesOf(entry_alleles) = <<"ATCC", "DSMZ">>
    /\ warnings = <<"ECACC">>
    /\ Held(entry_alleles, "ATCC", TH01) = <<<<"9", ",", "9", ".", "3">>>>
    /\ Held(entry_alleles, "DSMZ", TH01) = <<<<"9", ",", "9", ".", "3">>>>
    /\ Held(entry_alleles, "ATCC", TPOX) = <<>>
    /\ Held(entry_alleles, "DSMZ", TPOX) = <<<<"8">>>>

\* the sources the Source(s) lines of a block declare, in the order they are
\* first declared
RECURSIVE DeclaredIn(_)
DeclaredIn(block) ==
    IF block = <<>> THEN <<>>
    ELSE LET before == DeclaredIn(SubSeq(block, 1, Len(block) - 1))
             line == block[Len(block)]
             IsNew(source) == \A i \in 1..Len(before) : before[i] # source
             RECURSIVE Distinct(_)
             Distinct(sources) ==
                 IF sources = <<>> THEN <<>>
                 ELSE LET rest == Distinct(SubSeq(sources, 1, Len(sources) - 1))
                          last == sources[Len(sources)]
                      IN  IF \E i \in 1..Len(rest) : rest[i] = last THEN rest
                          ELSE Append(rest, last)
         IN  IF line.code = "ST" /\ line.form = "Source(s)"
             THEN before \o SelectSeq(Distinct(line.sources), IsNew)
             ELSE before

IsOX(line) == line.code = "OX"
OXLines(block) == SelectSeq(block, IsOX)

\* an entry has been parsed and its pairs taken without an exception
EntryFinished ==
    \/ pc = "parsing" /\ line_no = 0 /\ block_no > 1
    \/ pc \in {"parsed", "loaded"}
    \/ pc = "raised" /\ load_error = "UnboundLocalError: n"
FinishedBlock == IF pc = "parsing" THEN instream[block_no - 1] ELSE instream[block_no]

\* C15: a parsed record yields exactly one (alleles, metadata) pair per
\* source its Source(s) lines declare, in declaration order; the metadata of
\* a pair is the metadata of the record with source set to that source, and
\* taxid and organism are scalars when the record has exactly one OX line and
\* lists in line order when it has more
C15_PairsPerSource ==
    EntryFinished =>
        LET declared == DeclaredIn(FinishedBlock)
            ox == OXLines(FinishedBlock)
        IN  /\ Len(pairs) = Len(declared)
            /\ \A i \in 1..Len(pairs) :
                 /\ pairs[i].metadata.source = declared[i]
                 /\ pairs[i].alleles = Item(entry_alleles, declared[i])
                 /\ pairs[i].metadata.identifier = meta.identifier
                 /\ pairs[i].metadata.accession = meta.accession
                 /\ pairs[i].metadata.synonyms = meta.synonyms
                 /\ pairs[i].metadata.taxid.list = (Len(ox) > 1)
                 /\ pairs[i].metadata.organism.list = (Len(ox) > 1)
                 /\ pairs[i].metadata.taxid.ids = [k \in 1..Len(ox) |-> int(ox[k].marker)]
                 /\ pairs[i].metadata.organism.ids = [k \in 1..Len(ox) |-> ox[k].value]

\* a record with one OX line and two sources was followed by a record with
\* two sources, or a record with two OX lines and two sources was parsed
C15_Witness ==
    /\ pc = "loaded"
    /\ Len(pairs) = 2
    /\ pairs[1].metadata.source = "ATCC" /\ pairs[2].metadata.source = "DSMZ"
    /\ pairs[1].metadata.taxid = List(<<9606, 10090>>)
    /\ pairs[2].metadata.organism = List(<<"Homo sapiens", "Mus musculus">>)

IsMalformed(line) ==
    \/ line.code = "OX" /\ (line.marker = <<>>
                              \/ \E i \in 1..Len(line.marker) : ~IsDigit(line.marker[i]))
    \/ line.code = "ST" /\ line.form \notin {"Source(s)", "alleles", "Not_detected"}

RECURSIVE DeclaredUpTo(_)
DeclaredUpTo(b) == IF b = 0 THEN 0 ELSE DeclaredUpTo(b - 1) + Len(DeclaredIn(instream[b]))

\* C16: a load that an error ended has returned nothing, whatever was parsed
\* before the error; a load that returned a database met no malformed OX or
\* ST line, and the database holds a profile for every source every record
\* declares, each with canonical marker names of one species
C16_ErrorAbortsLoad ==
    /\ pc = "raised" => loaded = <<>>
    /\ loaded # <<>> =>
         /\ pc = "loaded" /\ load_error = ""
         /\ loaded = <<profiles>>
         /\ \A b \in 1..Len(instream) : \A i \in 1..Len(instream[b]) :
                ~IsMalformed(instream[b][i])
         /\ Len(profiles) = DeclaredUpTo(Len(instream))
         /\ \A k \in 1..Len(profiles) : \A i \in 1..Len(profiles[k].alleles) :
                <<profiles[k].alleles[i].key, profiles[k].taxid>> \in RegistryPairs

\* the first record of a file gave two profiles and the second one holds a
\* marker name that is not in the registry
C16_Witness ==
    /\ pc = "raised" /\ block_no = 2
    /\ load_error = "ValueError: invalid marker name(s)"
    /\ Len(profiles) = 2
    /\ loaded = <<>>

----------------------------------------------------------------------------
(* Persisted format: to_json / from_json.  json.dump followed by json.load  *)
(* gives back dicts with str keys, lists, str and int unchanged, so the     *)
(* text is kept as the list of payloads it encodes; the allele strings in   *)
(* it are joined when written and split when read.                          *)

\* ",".join(...)
RECURSIVE join(_)
join(tokens) ==
    IF tokens = <<>> THEN <<>>
    ELSE IF Len(tokens) = 1 THEN tokens[1]
    ELSE tokens[1] \o <<",">> \o join(Tail(tokens))

\* Profile.allele_dict
allele_dict(profile) ==
    [i \in 1..Len(profile.alleles) |->
        [key |-> profile.alleles[i].key,
         value |-> join(sorted_strings(profile.alleles[i].value))]]

\* Profile.payload
payload(profile) == [meta |-> profile.meta, alleles |-> allele_dict(profile)]

\* CellosaurusDB.to_json
to_json(database) == [i \in 1..Len(database) |-> payload(database[i])]

\* records.append(Profile(alleles, metadata)), unless Profile raises
append_record(acc, profile) ==
    IF profile.raised # "" THEN [acc EXCEPT !.raised = profile.raised]
    ELSE [acc EXCEPT !.records = Append(@, profile)]

\* the record is put in front of the records
prepend_record(acc, profile) ==
    IF profile.raised # "" THEN [acc EXCEPT !.raised = profile.raised]
    ELSE [acc EXCEPT !.records = <<profile>> \o @]

\* the loop of from_json: [raised, records]
RECURSIVE read_payload(_, _)
read_payload(items, acc) ==
    IF items = <<>> \/ acc.raised # "" THEN acc
    ELSE read_payload(Tail(items),
                      append_record(acc, Profile(Head(items).alleles, Head(items).meta)))

\* each record is put in front of the records read before it
RECURSIVE from_json_mut(_)
from_json_mut(text) ==
    IF text = <<>> THEN [raised |-> "", records |-> <<>>]
    ELSE prepend_record(from_json_mut(SubSeq(text, 1, Len(text) - 1)),
                        Profile(text[Len(text)].alleles, text[Len(text)].meta))

\* CellosaurusDB.from_json, for a text that holds a list
from_json(text) == read_payload(text, [raised |-> "", records |-> <<>>])

----------------------------------------------------------------------------
(* Specification of a round trip: a database is saved, the saved form is    *)
(* loaded, and the loaded database is saved again.                          *)

MaxProfiles == 2

StoredMeta(id, source, tx) ==
    [identifier |-> <<id>>, accession |-> <<id>>, synonyms |-> <<>>,
     taxid |-> tx, organism |-> tx, source |-> source]

RawItem(marker, allele_str) == [key |-> marker, value |-> allele_str]

\* what profiles are made from: marker names and allele strings as a file or
\* a caller gives them
RawAlleles ==
    { <<RawItem(<<"T", "H", "0", "1">>, <<"9", ",", "9", ".", "3">>)>>,
      <<RawItem(<<"t", "h", " ", "0", "1">>, <<"9", ".", "3", ",", " ", "1", "0", ",", "9">>), RawItem(<<"T", "P", "O", "X">>, <<"1", "1", ",", "8">>)>>,
      <<RawItem(<<"T", "P", "O", "X">>, <<"8">>), RawItem(<<"A", "m", "e", "l", "o", "g", "e", "n", "i", "n">>, <<"X", ",", "Y">>),
        RawItem(<<"T", "H", "0", "1">>, <<"1", "0", ",", "9", ",", "1", "0">>)>>,
      <<RawItem(<<"v", "W", "A">>, <<>>), RawItem(<<"V", "W", "A">>, <<"1", "5", ",", ",", "1", "7">>)>>,
      <<RawItem(<<"M", "o", "u", "s", "e", " ", "S", "T", "R", " ", "1", "-", "1">>, <<"1", "2", ",", "1", "5", ".", "2">>)>> }

StoredMetas ==
    { StoredMeta("CVCL_A", "ATCC", Scalar(9606)),
      StoredMeta("CVCL_A", "DSMZ", List(<<9606, 10090>>)),
      StoredMeta("CVCL_B", "ATCC", Scalar(10090)) }

StoredProfiles ==
    {p \in {Profile(a, m) : a \in RawAlleles, m \in StoredMetas} : p.raised = ""}

StoredDatabases == UNION {[1..k -> StoredProfiles] : k \in 0..MaxProfiles}

StoreInit ==
    /\ pc = "store"
    /\ db1 \in StoredDatabases
    /\ json1 = <<>> /\ db2 = <<>> /\ json2 = <<>>
    /\ SearchIdle /\ LoadIdle /\ MarkersIdle /\ ReprIdle

\* db1.to_json(path)
Save ==
    /\ pc = "store"
    /\ json1' = to_json(db1)
    /\ pc' = "saved"
    /\ UNCHANGED <<db1, db2, json2>>
    /\ UNCHANGED <<searchVars, loadVars, markerVars, reprVars>>

\* db2 = CellosaurusDB.load(path)
Reload ==
    /\ pc = "saved"
    /\ \E r \in {from_json(json1)} :
           /\ db2' = r.records
           /\ pc' = IF r.raised = "" THEN "reloaded" ELSE "raised"
    /\ UNCHANGED <<db1, json1, json2>>
    /\ UNCHANGED <<searchVars, loadVars, markerVars, reprVars>>

\* db2.to_json(...)
SaveAgain ==
    /\ pc = "reloaded"
    /\ json2' = to_json(db2)
    /\ pc' = "saved again"
    /\ UNCHANGED <<db1, json1, db2>>
    /\ UNCHANGED <<searchVars, loadVars, markerVars, reprVars>>

StoreNext == Save \/ Reload \/ SaveAgain

StoreSpec == StoreInit /\ [][StoreNext]_vars

----------------------------------------------------------------------------
(* Property of the persisted format, checked under StoreSpec *)

\* C19: a saved database can be loaded, and saving the loaded database gives
\* the output of the first save: the same profiles in the same order, each
\* with the same metadata, marker keys and allele strings
C19_RoundTripStable ==
    /\ pc # "raised"
    /\ pc \in {"reloaded", "saved again"} => Len(db2) = Len(db1)
    /\ pc = "saved again" =>
         /\ Len(json2) = Len(json1)
         /\ \A i \in 1..Len(json1) :
              /\ json2[i].meta = json1[i].meta
              /\ Len(json2[i].alleles) = Len(json1[i].alleles)
              /\ \A k \in 1..Len(json1[i].alleles) :
                   /\ json2[i].alleles[k].key = json1[i].alleles[k].key
                   /\ json2[i].alleles[k].value = json1[i].alleles[k].value

\* two different profiles went through the round trip, one of them with
\* three alleles of a marker written in string order
C19_Witness ==
    /\ pc = "saved again" /\ Len(json1) = 2
    /\ json1[1] # json1[2]
    /\ \E k \in 1..Len(json2[1].alleles) : json2[1].alleles[k].value = <<"1", "0", ",", "9", ",", "9", ".", "3">>

----------------------------------------------------------------------------
(* Rendering of an allele set: Profile.allele_repr *)

IsDigits(text) == text # <<>> /\ \A i \in 1..Len(text) : IsDigit(text[i])
HasDot(text) == \E i \in 1..Len(text) : text[i] = "."
DotAt(text) == CHOOSE i \in 1..Len(text) : text[i] = "."
RECURSIVE Pow10(_)
Pow10(k) == IF k = 0 THEN 1 ELSE 10 * Pow10(k - 1)

\* str(n) for an int n >= 0
RECURSIVE str_int(_)
str_int(v) ==
    IF v < 10 THEN <<Digits[v + 1]>> ELSE Append(str_int(v \div 10), Digits[(v % 10) + 1])

RECURSIVE strip_zeros(_)
strip_zeros(text) ==
    IF text # <<>> /\ text[Len(text)] = "0" THEN strip_zeros(SubSeq(text, 1, Len(text) - 1))
    ELSE text

Transformed(raised, type, value, text) ==
    [raised |-> raised, type |-> type, value |-> value, text |-> text]

\* float(allele) for a text that holds a ".": digits, ".", digits, with a
\* digit on one side at least; text is what str() gives for the float
to_float(allele) ==
    LET whole == SubSeq(allele, 1, DotAt(allele) - 1)
        part == SubSeq(allele, DotAt(allele) + 1, Len(allele))
        digits == strip_zeros(part)
    IN  IF /\ \A i \in 1..Len(whole) : IsDigit(whole[i])
           /\ \A i \in 1..Len(part) : IsDigit(part[i])
           /\ whole \o part # <<>>
        THEN Transformed("", "float",
                         Frac(int(whole) * Pow10(Len(part)) + int(part), Pow10(Len(part))),
                         str_int(int(whole)) \o <<".">>
                             \o (IF digits = <<>> THEN <<"0">> ELSE digits))
        ELSE Transformed("ValueError: could not convert string to float", "", Zero, <<>>)

\* Profile.allele_transform, with the text str() gives for the value
allele_transform(allele) ==
    IF HasDot(allele) THEN to_float(allele)
    ELSE IF IsDigits(allele)
    THEN Transformed("", "int", Frac(int(allele), 1), str_int(int(allele)))
    ELSE IF allele \in {<<"X">>, <<"Y">>}
    THEN Transformed("", "str", Zero, allele)
    ELSE Transformed("ValueError: unexpected allele", "", Zero, <<>>)

\* a < b for two transformed alleles of comparable types
value_lt(a, b) ==
    IF a.type = "str" THEN StrLt(a.text, b.text) ELSE FracLt(a.value, b.value)

\* sorted(alleles), then str() of each
RECURSIVE sorted_texts(_)
sorted_texts(values) ==
    IF values = {} THEN <<>>
    ELSE LET least == CHOOSE x \in values : \A y \in values : ~value_lt(y, x)
         IN  <<least.text>> \o sorted_texts(values \ {least})

\* Profile.allele_repr
allele_repr(alleles_arg) ==
    LET values == {allele_transform(a) : a \in alleles_arg}
    IN  IF \E v \in values : v.raised # ""
        THEN [raised |-> (CHOOSE v \in values : v.raised # "").raised, text |-> <<>>]
        ELSE IF (\E v \in values : v.type = "str") /\ (\E v \in values : v.type # "str")
        THEN [raised |-> "TypeError: '<' not supported", text |-> <<>>]
        ELSE [raised |-> "", text |-> join(sorted_texts(values))]

----------------------------------------------------------------------------
(* Specification of the rendering: a caller holding an allele set calls     *)
(* Profile.allele_repr once.                                                *)

ValidTokens ==
    {<<"8">>, <<"9">>, <<"9", ".", "3">>, <<"1", "0">>, <<"1", "1">>, <<"1", "5", ".", "2">>, <<"X">>, <<"Y">>}
TokenPool == ValidTokens \cup {<<"Z">>}

ReprInit ==
    /\ pc = "call"
    /\ allele_set \in SUBSET TokenPool
    /\ repr_result = <<>>
    /\ SearchIdle /\ LoadIdle /\ MarkersIdle /\ StoreIdle

ReprCall ==
    /\ pc = "call"
    /\ repr_result' = allele_repr(allele_set)
    /\ pc' = IF repr_result'.raised = "" THEN "returned" ELSE "raised"
    /\ UNCHANGED allele_set
    /\ UNCHANGED <<searchVars, loadVars, markerVars, storeVars>>

ReprNext == ReprCall

ReprSpec == ReprInit /\ [][ReprNext]_vars

----------------------------------------------------------------------------
(* Property of the rendering, checked under ReprSpec *)

\* the number a numeric token stands for, as tenths
Tenths(token) ==
    CASE token = <<"8">> -> 80
      [] token = <<"9">> -> 90
      [] token = <<"9", ".", "3">> -> 93
      [] token = <<"1", "0">> -> 100
      [] token = <<"1", "1">> -> 110
      [] token = <<"1", "5", ".", "2">> -> 152

IsLetter(token) == token \in {<<"X">>, <<"Y">>}

RendersBefore(a, b) ==
    IF IsLetter(a) THEN IsLetter(b) /\ a = <<"X">> /\ b = <<"Y">>
    ELSE IsLetter(b) \/ Tenths(a) < Tenths(b)

\* C20: for every set of valid allele tokens the call returns the tokens of
\* the set joined by commas, numeric tokens in the order of their values,
\* then X, then Y
C20_SortedRendering ==
    (pc # "call" /\ allele_set \subseteq ValidTokens) =>
        /\ pc = "returned"
        /\ \E order \in [1..Cardinality(allele_set) -> allele_set] :
             /\ \A i, j \in 1..Cardinality(allele_set) :
                    i < j => RendersBefore(order[i], order[j])
             /\ repr_result.text = join(order)

\* the same for the sets that hold numeric tokens only or letters only
C20_UnmixedRendering ==
    (\A a, b \in allele_set : IsLetter(a) = IsLetter(b)) => C20_SortedRendering

----------------------------------------------------------------------------
(* Specification of a filtered search: a caller searches a database once    *)
(* with an algorithm, a mode and a taxid of its choice and the default      *)
(* thresholds.                                                              *)

FilterAlgorithmArgs == {"Tanabe", "query", "AI"}
FilterModeArgs == {"intersect", "reference", "lizard"}
FilterTaxidArgs == {<<>>, <<9606>>, <<10090>>, <<4932>>}

FilterSearch ==
    SearchWith(FilterAlgorithmArgs, FilterModeArgs, FilterTaxidArgs, {Zero}, {20})

FilterNext == FilterSearch

FilterSpec == Init /\ [][FilterNext]_vars

----------------------------------------------------------------------------
(* Properties of the taxid filter, checked under FilterSpec *)

Searched == pc \in {"searched", "iterating", "stopped"}

\* how often a profile occurs in the database
Occurrences(ref) == Cardinality({i \in 1..Len(db) : db[i] = ref})

\* how many stored ProfileResults were scored against a profile
ScoredTimes(ref) ==
    Cardinality({ik \in UNION {{<<i, k>> : k \in 1..Len(results_by_cell_line[i].results)} :
                                i \in 1..Len(results_by_cell_line)} :
                    results_by_cell_line[ik[1]].results[ik[2]].reference = ref})

\* C21: a search with a taxid scores a reference exactly when the taxid is
\* among the reference's taxid metadata (the one value of a scalar, any entry
\* of a list); a search without a taxid scores every reference.
C21_TaxidFilter ==
    Searched =>
        \A i \in 1..Len(db) :
            ScoredTimes(db[i]) =
                IF taxid = <<>> \/ TaxidContains(db[i], taxid[1])
                THEN Occurrences(db[i]) ELSE 0

\* a search for 9606 scored a reference listing 9606 as its second taxid and
\* a scalar 9606 reference, and skipped a scalar 10090 reference
C21_Witness ==
    /\ pc = "searched" /\ taxid = <<9606>> /\ Len(db) = 3
    /\ db[1].meta.taxid = List(<<10090, 9606>>) /\ ScoredTimes(db[1]) = 1
    /\ db[2].meta.taxid = Scalar(10090) /\ ScoredTimes(db[2]) = 0
    /\ db[3].meta.taxid = Scalar(9606) /\ ScoredTimes(db[3]) = 1

----------------------------------------------------------------------------
(* Properties of Profile construction, checked under StoreSpec: the         *)
(* profiles of db1 were built by Profile(alleles, meta), those of db2 by    *)
(* from_json out of the saved form.                                         *)

\* the profiles a caller holds
BuiltProfiles ==
    {db1[i] : i \in 1..Len(db1)} \cup {db2[i] : i \in 1..Len(db2)}

\* digits, a dot, digits
IsDecimal(token) ==
    /\ Cardinality({i \in 1..Len(token) : token[i] = "."}) = 1
    /\ IsDigits(SubSeq(token, 1, DotAt(token) - 1))
    /\ IsDigits(SubSeq(token, DotAt(token) + 1, Len(token)))

IsAlleleToken(token) == IsDigits(token) \/ IsDecimal(token) \/ IsLetter(token)

\* every marker key of the profile is a canonical registry name and every
\* allele set has a token
CanonicalKeysNonEmptySets(profile) ==
    \A k \in 1..Len(profile.alleles) :
        /\ profile.alleles[k].key \in RegistryNames
        /\ profile.alleles[k].value # {}

\* C22: every constructed Profile has canonical registry names as marker
\* keys, and every allele set of it is non-empty and holds only tokens that
\* are an integer, a decimal, X or Y.
C22_ProfileInvariant ==
    \A profile \in BuiltProfiles :
        /\ CanonicalKeysNonEmptySets(profile)
        /\ \A k \in 1..Len(profile.alleles) :
              \A token \in profile.alleles[k].value : IsAlleleToken(token)

\* what construction does establish: canonical keys and non-empty sets
C22_KeysAndNonEmptySets ==
    \A profile \in BuiltProfiles : CanonicalKeysNonEmptySets(profile)

----------------------------------------------------------------------------
(* Property of the report rows against top_score, checked under Spec *)

RowKey(row) == <<row.Score, row.SharedAlleles>>

IsLeadRow(row) == row.Status \in {"best", "only"}

\* the best / only rows of the full report, in report order
LeadRows == SelectSeq(full_report, IsLeadRow)

NonIncreasing(rows) ==
    \A i, j \in 1..Len(rows) : i < j => ~KeyLt(RowKey(rows[i]), RowKey(rows[j]))

\* C23: the summary row of a cell-line shows its top_score and its
\* top_score_shared_alleles, and so does its best / only row of the full
\* report; the summary rows and the best / only rows are therefore in
\* non-increasing order of (Score, SharedAlleles).
C23_BestRowIsTopScore ==
    /\ \A i \in 1..Len(summary) : RowKey(summary[i]) = sort_key(yielded[i])
    /\ NonIncreasing(summary)
    /\ pc \in {"iterating", "stopped"} =>
          /\ Len(LeadRows) = Len(yielded)
          /\ \A i \in 1..Len(yielded) : RowKey(LeadRows[i]) = sort_key(yielded[i])
          /\ NonIncreasing(LeadRows)

\* two cell-lines were reported with different scores, and the top score of
\* one of them is not the score of its first result
C23_Witness ==
    /\ pc = "stopped" /\ Len(summary) = 2 /\ Len(LeadRows) = 2
    /\ FracLt(summary[2].Score, summary[1].Score)
    /\ \E i \in 1..2 :
          /\ Len(yielded[i].results) = 2
          /\ FracLt(yielded[i].results[1].score, summary[i].Score)

----------------------------------------------------------------------------
(* Property of the modes and algorithms against one another, checked under  *)
(* ScoreSpec: the call of the state is compared with the call a caller      *)
(* makes for the same profiles and Amelogenin setting under Tanabe and      *)
(* intersect; the states cover every algorithm and mode for each pair.      *)

IntersectTanabe == score(query, reference, "Tanabe", "intersect", amel)

\* C24: for the same two profiles and the same Amelogenin setting every
\* supported algorithm and mode gives the same shared-allele count, and the
\* Tanabe score under the query or reference mode is never above the Tanabe
\* score under intersect.
C24_SharedCountModeIndependent ==
    pc = "returned" =>
        \E base \in {IntersectTanabe} :
            /\ base.raised = ""
            /\ score_result.shared_alleles = base.shared_alleles
            /\ (algorithm = "Tanabe" => FracLe(score_result.score, base.score))

\* a Tanabe call in query mode returned shared alleles and a score strictly
\* below the one of intersect mode: the query holds a marker the reference
\* lacks
C24_Witness ==
    /\ pc = "returned" /\ algorithm = "Tanabe" /\ mode = "query"
    /\ score_result.shared_alleles = 2
    /\ FracLt(score_result.score, IntersectTanabe.score)
    /\ DOMAIN query.alleles # DOMAIN reference.alleles

----------------------------------------------------------------------------
(* Property of the argument check of a search, checked under FilterSpec *)

Unsupported == algorithm \notin Algorithms \/ mode \notin Modes

\* C25: a search with an unsupported algorithm or mode raises exactly when
\* some reference of the database passes the taxid filter; with an empty
\* database, or with every reference filtered out, it returns an empty
\* result.
C25_FailsOnlyWhenScoring ==
    pc \in {"searched", "failed"} /\ Unsupported =>
        /\ pc = "failed" <=> Len(Passed) > 0
        /\ pc = "failed" => stop_reason = "ValueError"
        /\ Len(Passed) = 0 => pc = "searched" /\ results_by_cell_line = <<>>

\* a search with an unsupported mode returned from a database of three
\* references, none of which has the taxid searched for
C25_Witness ==
    /\ pc = "searched" /\ mode = "lizard" /\ algorithm = "Tanabe"
    /\ Len(db) = 3 /\ taxid = <<4932>>
    /\ results_by_cell_line = <<>>

\* a search with an unsupported algorithm failed at the third reference, the
\* first to pass the taxid filter
C25_WitnessFailed ==
    /\ pc = "failed" /\ algorithm = "AI" /\ taxid = <<10090>>
    /\ Len(db) = 3 /\ Len(Passed) = 1 /\ Passed[1] = db[3]

====
